---- MODULE Spec2Model ----
(***************************************************************************)
(* Model of the Angular migrator: the orchestrator (src/src/migrator.ts),  *)
(* the manifest and build-configuration patches (src/src/utils/pkg.ts,     *)
(* angular-json part of src/unnamed/part_000), the rewrite primitives      *)
(* (codemods part of src/unnamed/part_000) and the four migration steps.   *)
(*                                                                         *)
(* Strings of the program are kept as strings.  A version string such as   *)
(* '^16.2.0' is the record [pre |-> "^", major |-> 16, rest |-> ".2.0"]:   *)
(* the text before the first run of digits, that run as a number (-1 when  *)
(* the string has no digit) and the text after it.                         *)
(***************************************************************************)
EXTENDS Integers, Sequences, FiniteSets, TLC

VARIABLES pc, opts, disk, disk0, stepsToRun, idx, ran, allResults, logger,
          written, currentVersion, toVersion, runs, unit

vars == <<pc, opts, disk, disk0, stepsToRun, idx, ran, allResults, logger,
          written, currentVersion, toVersion, runs, unit>>

(***************************************************************************)
(* Bounds of the model.                                                    *)
(***************************************************************************)
VersionLo == 13
VersionHi == 20
MaxRuns == 2
MaxPrimCalls == 2
MaxImports == 2
MaxProps == 2
MaxCalls == 2

MaxIdents == 2

MaxDecls == 2

NoVersion == -1

Range(s) == {s[i] : i \in 1..Len(s)}

RECURSIVE Concat(_)
Concat(ss) == IF ss = <<>> THEN <<>> ELSE Head(ss) \o Concat(Tail(ss))

(***************************************************************************)
(* Version strings.                                                        *)
(***************************************************************************)
V(pre, major, rest) == [pre |-> pre, major |-> major, rest |-> rest]

EmptyString == V("", NoVersion, "")

\* mutant: a version string without a digit parses to 0
ParseVersion_zero(v) == IF v.major = NoVersion THEN 0 ELSE v.major

\* version.match(/(\d+)/) followed by parseInt(match[1], 10)
ParseVersion(v) == v.major

(***************************************************************************)
(* package.json: st is "absent", "malformed" or "ok"; doc maps each        *)
(* section that is present to its name -> version map.                     *)
(***************************************************************************)
Sections == <<"dependencies", "devDependencies", "peerDependencies">>

NoDeps == [n \in {} |-> EmptyString]

Deps1(n, v) == [x \in {n} |-> v]

Merge(f, g) == [x \in (DOMAIN f) \cup (DOMAIN g) |-> IF x \in DOMAIN g THEN g[x] ELSE f[x]]

Without(f, n) == [x \in (DOMAIN f) \ {n} |-> f[x]]

Section(doc, s) == IF s \in DOMAIN doc THEN doc[s] ELSE NoDeps

\* readPackageJson: "throw" when the file is missing or JSON.parse fails
readPackageJson(d) == IF d.pkg.st = "ok" THEN [ok |-> TRUE, doc |-> d.pkg.doc]
                      ELSE [ok |-> FALSE, doc |-> d.pkg.doc]

\* writePackageJson: the whole document is rewritten
writePackageJson(d, doc) == [d EXCEPT !.pkg = [st |-> "ok", doc |-> doc]]

\* detectAngularVersion: the result is NoVersion when it throws
detectAngularVersion(d) ==
  LET r == readPackageJson(d)
      deps == Merge(Section(r.doc, "dependencies"), Section(r.doc, "devDependencies"))
  IN  IF ~r.ok THEN [ok |-> FALSE, version |-> NoVersion]
      ELSE IF "@angular/core" \notin DOMAIN deps \/ deps["@angular/core"] = EmptyString
           THEN [ok |-> FALSE, version |-> NoVersion]
      ELSE IF ParseVersion(deps["@angular/core"]) = NoVersion
           THEN [ok |-> FALSE, version |-> NoVersion]
      ELSE [ok |-> TRUE, version |-> ParseVersion(deps["@angular/core"])]

(***************************************************************************)
(* Result records.                                                         *)
(***************************************************************************)
\* desc is the description as a sequence of strings; before and after are
\* the version strings the description (or the before/after fields) carries
Change(file, desc, before, after) ==
  [file |-> file, desc |-> desc, before |-> before, after |-> after]

Chg(file, desc) == Change(file, desc, EmptyString, EmptyString)

Warning(file, message) == [file |-> file, message |-> message]

\* The world a step works on: the persisted files, the in-memory trees,
\* the persisted writes in order and whether an exception is in flight.
World(d) == [disk |-> d, trees |-> <<>>, loaded |-> FALSE, events |-> <<>>,
             raised |-> FALSE, returned |-> FALSE]

Ret(w, changes, warnings) == [w |-> w, changes |-> changes, warnings |-> warnings]

Raise(w) == Ret([w EXCEPT !.raised = TRUE], <<>>, <<>>)

Persist(w, target, d) == [w EXCEPT !.disk = d, !.events = Append(@, target)]

(***************************************************************************)
(* Manifest patches (src/src/utils/pkg.ts).                                *)
(***************************************************************************)
\* the inner loop of updatePackageVersions over Object.entries(updates)
RECURSIVE UpdateEntries(_, _, _)
UpdateEntries(deps, updates, section) ==
  IF updates = <<>> THEN [deps |-> deps, changes |-> <<>>]
  ELSE LET name == Head(updates)[1]
           newVersion == Head(updates)[2]
           hit == name \in DOMAIN deps /\ deps[name] # newVersion
           deps1 == IF hit THEN [deps EXCEPT ![name] = newVersion] ELSE deps
           rest == UpdateEntries(deps1, Tail(updates), section)
       IN  [deps |-> rest.deps,
            changes |-> (IF hit THEN <<Change("package.json", <<section, name>>,
                                              deps[name], newVersion)>>
                         ELSE <<>>) \o rest.changes]

\* the outer loop of updatePackageVersions over the three sections
RECURSIVE UpdateSections(_, _, _)
UpdateSections(doc, updates, sections) ==
  IF sections = <<>> THEN [doc |-> doc, changes |-> <<>>]
  ELSE LET section == Head(sections)
           r == IF section \in DOMAIN doc
                THEN UpdateEntries(doc[section], updates, section)
                ELSE [deps |-> NoDeps, changes |-> <<>>]
           doc1 == IF section \in DOMAIN doc THEN [doc EXCEPT ![section] = r.deps] ELSE doc
           rest == UpdateSections(doc1, updates, Tail(sections))
       IN  [doc |-> rest.doc, changes |-> r.changes \o rest.changes]

\* mutant: the manifest is written whenever it has changes, preview or not
updatePackageVersions_alwaysWrite(ctx, updates, w) ==
  IF ctx.skipPackageJson THEN Ret(w, <<>>, <<>>)
  ELSE LET pkg == readPackageJson(w.disk)
           r == UpdateSections(pkg.doc, updates, Sections)
       IN  IF ~pkg.ok THEN Raise(w)
           ELSE IF r.changes # <<>>
                THEN Ret(Persist(w, "package.json", writePackageJson(w.disk, r.doc)),
                         r.changes, <<>>)
                ELSE Ret(w, r.changes, <<>>)

updatePackageVersions(ctx, updates, w) ==
  IF ctx.skipPackageJson THEN Ret(w, <<>>, <<>>)
  ELSE LET pkg == readPackageJson(w.disk)
           r == UpdateSections(pkg.doc, updates, Sections)
       IN  IF ~pkg.ok THEN Raise(w)
           ELSE IF r.changes # <<>> /\ ~ctx.dryRun
                THEN Ret(Persist(w, "package.json", writePackageJson(w.disk, r.doc)),
                         r.changes, <<>>)
                ELSE Ret(w, r.changes, <<>>)

RECURSIVE ReplaceSections(_, _, _, _, _)
ReplaceSections(doc, oldName, newName, newVersion, sections) ==
  IF sections = <<>> THEN [doc |-> doc, changes |-> <<>>]
  ELSE LET section == Head(sections)
           hit == section \in DOMAIN doc /\ oldName \in DOMAIN doc[section]
           doc1 == IF hit
                   THEN [doc EXCEPT ![section] =
                           Merge(Without(@, oldName), Deps1(newName, newVersion))]
                   ELSE doc
           rest == ReplaceSections(doc1, oldName, newName, newVersion, Tail(sections))
       IN  [doc |-> rest.doc,
            changes |-> (IF hit THEN <<Change("package.json",
                                              <<section, "replaced", oldName, newName>>,
                                              doc[section][oldName], newVersion)>>
                         ELSE <<>>) \o rest.changes]

\* mutant: the replacement is made whatever skipPackageJson says
replacePackageDependency_noSkip(ctx, oldName, newName, newVersion, w) ==
  LET pkg == readPackageJson(w.disk)
      r == ReplaceSections(pkg.doc, oldName, newName, newVersion, Sections)
  IN  IF ~pkg.ok THEN Raise(w)
      ELSE IF r.changes # <<>> /\ ~ctx.dryRun
           THEN Ret(Persist(w, "package.json", writePackageJson(w.disk, r.doc)),
                    r.changes, <<>>)
           ELSE Ret(w, r.changes, <<>>)

replacePackageDependency(ctx, oldName, newName, newVersion, w) ==
  IF ctx.skipPackageJson THEN Ret(w, <<>>, <<>>)
  ELSE LET pkg == readPackageJson(w.disk)
           r == ReplaceSections(pkg.doc, oldName, newName, newVersion, Sections)
       IN  IF ~pkg.ok THEN Raise(w)
           ELSE IF r.changes # <<>> /\ ~ctx.dryRun
                THEN Ret(Persist(w, "package.json", writePackageJson(w.disk, r.doc)),
                         r.changes, <<>>)
                ELSE Ret(w, r.changes, <<>>)

(***************************************************************************)
(* Build-configuration patches (angular-json part of src/unnamed/part_000).*)
(* angular.json: st is "absent", "malformed" or "ok"; doc holds the        *)
(* defaultProject key, whether 'projects' is present and the projects.     *)
(***************************************************************************)
BrowserBuilder == "@angular-devkit/build-angular:browser"
EsbuildBuilder == "@angular-devkit/build-angular:browser-esbuild"
ApplicationBuilder == "@angular-devkit/build-angular:application"

\* readAngularJson: null when the file is missing, "throw" when JSON.parse fails
readAngularJson(d) == [ok |-> d.ng.st # "malformed", null |-> d.ng.st = "absent",
                       doc |-> d.ng.doc]

writeAngularJson(d, doc) == [d EXCEPT !.ng = [st |-> "ok", doc |-> doc]]

\* the body of the loop over the projects and their 'build' target
MigrateProject(p) ==
  IF ~p.architect \/ ~p.build THEN [p |-> p, changes |-> <<>>]
  ELSE IF p.builder = BrowserBuilder
  THEN LET renameMain == p.options /\ p.main
           toArray == p.options /\ p.polyfills = "string"
       IN  [p |-> [p EXCEPT !.builder = ApplicationBuilder,
                            !.main = IF renameMain THEN FALSE ELSE @,
                            !.browser = IF renameMain THEN TRUE ELSE @,
                            !.polyfills = IF toArray THEN "array" ELSE @],
            changes |-> <<Chg("angular.json", <<p.name, "builder", "browser", "application">>)>>
                        \o (IF renameMain
                            THEN <<Chg("angular.json", <<p.name, "options", "main", "browser">>)>>
                            ELSE <<>>)
                        \o (IF toArray
                            THEN <<Chg("angular.json", <<p.name, "options.polyfills", "string", "array">>)>>
                            ELSE <<>>)]
  ELSE IF p.builder = EsbuildBuilder
  THEN [p |-> [p EXCEPT !.builder = ApplicationBuilder],
        changes |-> <<Chg("angular.json", <<p.name, "builder", "browser-esbuild", "application">>)>>]
  ELSE [p |-> p, changes |-> <<>>]

migrateBrowserBuilderToApplication(ctx, w) ==
  LET config == readAngularJson(w.disk)
      rs == [i \in 1..Len(config.doc.projects) |-> MigrateProject(config.doc.projects[i])]
      changes == Concat([i \in 1..Len(rs) |-> rs[i].changes])
      doc1 == [config.doc EXCEPT !.projects = [i \in 1..Len(rs) |-> rs[i].p]]
  IN  IF ~config.ok THEN Raise(w)
      ELSE IF config.null \/ ~config.doc.hasProjects THEN Ret(w, <<>>, <<>>)
      ELSE IF changes # <<>> /\ ~ctx.dryRun
           THEN Ret(Persist(w, "angular.json", writeAngularJson(w.disk, doc1)), changes, <<>>)
           ELSE Ret(w, changes, <<>>)

\* mutant: the Change is returned only when the file was written
removeDefaultProject_reportOnWrite(ctx, w) ==
  LET config == readAngularJson(w.disk)
      doc1 == [config.doc EXCEPT !.defaultProject = FALSE]
      changes == <<Chg("angular.json", <<"Removed deprecated defaultProject field">>)>>
  IN  IF ~config.ok THEN Raise(w)
      ELSE IF config.null \/ ~config.doc.defaultProject THEN Ret(w, <<>>, <<>>)
      ELSE IF ~ctx.dryRun
           THEN Ret(Persist(w, "angular.json", writeAngularJson(w.disk, doc1)), changes, <<>>)
           ELSE Ret(w, <<>>, <<>>)

removeDefaultProject(ctx, w) ==
  LET config == readAngularJson(w.disk)
      doc1 == [config.doc EXCEPT !.defaultProject = FALSE]
      changes == <<Chg("angular.json", <<"Removed deprecated defaultProject field">>)>>
  IN  IF ~config.ok THEN Raise(w)
      ELSE IF config.null \/ ~config.doc.defaultProject THEN Ret(w, <<>>, <<>>)
      ELSE IF ~ctx.dryRun
           THEN Ret(Persist(w, "angular.json", writeAngularJson(w.disk, doc1)), changes, <<>>)
           ELSE Ret(w, changes, <<>>)

(***************************************************************************)
(* Source trees (ts-morph SourceFile).  A tree holds                       *)
(*   imports : the import declarations in order, each with its module      *)
(*             specifier and its named imports (name, alias; alias "" when *)
(*             the specifier has no 'as' clause);                          *)
(*   classes : the classes with their decorators, constructor parameter    *)
(*             types and property types;                                   *)
(*   calls   : the call statements x.outer(y.inner(arg)) of the body;      *)
(*   idents  : the other Identifier nodes of the body with their role;     *)
(*   scans   : one token per occurrence of a shape that a read-only scan   *)
(*             of a step recognises.                                       *)
(***************************************************************************)
Min(S) == CHOOSE i \in S : \A j \in S : i <= j

RemoveAt(s, i) == [k \in 1..(Len(s) - 1) |-> IF k < i THEN s[k] ELSE s[k + 1]]

NI(name, alias) == [name |-> name, alias |-> alias]

Imp(mod, names) == [mod |-> mod, names |-> names]

HasNamed(imp, name) == \E j \in 1..Len(imp.names) : imp.names[j].name = name

\* sf.getImportDeclarations().find(d => module matches && some named import matches)
FindImport(imports, mod, name) ==
  LET I == {i \in 1..Len(imports) : imports[i].mod = mod /\ HasNamed(imports[i], name)}
  IN  IF I = {} THEN 0 ELSE Min(I)

\* sf.getImportDeclarations().find(imp => module matches)
FindModule(imports, mod) ==
  LET I == {i \in 1..Len(imports) : imports[i].mod = mod}
  IN  IF I = {} THEN 0 ELSE Min(I)

\* namedImports.length === 1 ? imp.remove() : namedImports.find(...)?.remove()
RemoveBinding(imports, i, name) ==
  IF Len(imports[i].names) = 1 THEN RemoveAt(imports, i)
  ELSE LET j == Min({k \in 1..Len(imports[i].names) : imports[i].names[k].name = name})
       IN  [imports EXCEPT ![i].names = RemoveAt(@, j)]

RenameText(t, oldName, newName) == IF t = oldName THEN newName ELSE t

RenameElem(e, o, n) == [e EXCEPT !.text = RenameText(@, o, n)]

\* a property name is an Identifier unless it is a string literal or a spread
RenameProp(p, o, n) ==
  [p EXCEPT !.name = IF p.form \in {"assign", "shorthand"} THEN RenameText(@, o, n) ELSE @,
            !.elems = [k \in 1..Len(@) |-> RenameElem(@[k], o, n)]]

RenameDec(d, o, n) ==
  [d EXCEPT !.kind = RenameText(@, o, n),
            !.props = [k \in 1..Len(@) |-> RenameProp(@[k], o, n)]]

RenameClass(c, o, n) ==
  [c EXCEPT !.name = RenameText(@, o, n),
            !.decs = [k \in 1..Len(@) |-> RenameDec(@[k], o, n)],
            !.params = [k \in 1..Len(@) |-> RenameText(@[k], o, n)],
            !.fields = [k \in 1..Len(@) |-> RenameText(@[k], o, n)]]

\* every Identifier of the file whose text is oldName and whose parent is not
\* an ImportSpecifier is replaced
RenameBody(sf, o, n) ==
  [sf EXCEPT !.classes = [k \in 1..Len(@) |-> RenameClass(@[k], o, n)],
             !.calls = [k \in 1..Len(@) |-> [@[k] EXCEPT !.arg = RenameText(@, o, n)]],
             !.idents = [k \in 1..Len(@) |-> [@[k] EXCEPT !.text = RenameText(@, o, n)]]]

FileRet(sf, save, changes, warnings) ==
  [tree |-> sf, save |-> save, changes |-> changes, warnings |-> warnings]

Untouched(sf) == FileRet(sf, FALSE, <<>>, <<>>)

renameNamedImportFile(path, sf, moduleName, oldName, newName) ==
  LET fileChanged == \E i \in 1..Len(sf.imports) :
                        sf.imports[i].mod = moduleName /\ HasNamed(sf.imports[i], oldName)
      renamed == [i \in 1..Len(sf.imports) |->
                    IF sf.imports[i].mod = moduleName
                    THEN [sf.imports[i] EXCEPT !.names =
                            [j \in 1..Len(@) |-> [@[j] EXCEPT !.name = RenameText(@, oldName, newName)]]]
                    ELSE sf.imports[i]]
  IN  IF fileChanged
      THEN FileRet(RenameBody([sf EXCEPT !.imports = renamed], oldName, newName), TRUE,
                   <<Chg(path, <<"rename", oldName, newName, moduleName>>)>>, <<>>)
      ELSE Untouched(sf)

\* existingNewImport.addNamedImport(symbolName) / sf.addImportDeclaration(...)
AddBinding(imports, toModule, symbolName) ==
  LET e == FindModule(imports, toModule)
  IN  IF e # 0 THEN [imports EXCEPT ![e].names = Append(@, NI(symbolName, ""))]
      ELSE Append(imports, Imp(toModule, <<NI(symbolName, "")>>))

moveImportFile(path, sf, symbolName, fromModule, toModule) ==
  LET oldImport == FindImport(sf.imports, fromModule, symbolName)
  IN  IF oldImport = 0 THEN Untouched(sf)
      ELSE FileRet([sf EXCEPT !.imports =
                      AddBinding(RemoveBinding(sf.imports, oldImport, symbolName),
                                 toModule, symbolName)],
                   TRUE, <<Chg(path, <<"move", symbolName, fromModule, toModule>>)>>, <<>>)

removeObsoleteImportFile(path, sf, moduleName, symbolName) ==
  LET imp == FindImport(sf.imports, moduleName, symbolName)
  IN  IF imp = 0 THEN Untouched(sf)
      ELSE FileRet([sf EXCEPT !.imports = RemoveBinding(sf.imports, imp, symbolName)],
                   TRUE, <<Chg(path, <<"removed import", symbolName, moduleName>>)>>,
                   <<Warning(path, <<"removed", symbolName, moduleName>>)>>)

migrateCanLoadToCanMatchFile(path, sf) ==
  LET imp == FindImport(sf.imports, "@angular/router", "CanLoad")
      renamed == [sf.imports EXCEPT ![imp].names =
                    [j \in 1..Len(@) |-> [@[j] EXCEPT !.name = RenameText(@, "CanLoad", "CanMatch")]]]
  IN  IF imp = 0 THEN Untouched(sf)
      ELSE FileRet(RenameBody([sf EXCEPT !.imports = renamed], "CanLoad", "CanMatch"), TRUE,
                   <<Chg(path, <<"CanLoad -> CanMatch">>)>>, <<>>)

(***************************************************************************)
(* Decorators.  A decorator has a kind (its name), arg = "none" (no        *)
(* argument), "expr" (first argument is not an object literal) or          *)
(* "literal", and the properties of the literal.  A property has a form:   *)
(* "assign" (name: value), "quoted" ('name': value), "shorthand" (name) or *)
(* "spread" (...name); arr says whether its initializer is an array        *)
(* literal, elems are the array's elements, val is any other initializer.  *)
(* An element is an identifier (kind "ident") or a call text.method(...)   *)
(* (kind "call").                                                          *)
(***************************************************************************)
Prop(form, name, arr, elems, val) ==
  [form |-> form, name |-> name, arr |-> arr, elems |-> elems, val |-> val]

Ident(text) == [kind |-> "ident", text |-> text, method |-> ""]

CallElem(text, method) == [kind |-> "call", text |-> text, method |-> method]

Dec(kind, arg, props) == [kind |-> kind, arg |-> arg, props |-> props]

Class(name, decs, params, fields) ==
  [name |-> name, decs |-> decs, params |-> params, fields |-> fields]

\* PropertyNamedNode.getName(): the text of the name node, quotes included;
\* a spread assignment has no name
PropGetName(p) == IF p.form = "quoted" THEN "'" \o p.name \o "'"
                  ELSE IF p.form = "spread" THEN "" ELSE p.name

HasGetName(p) == p.form # "spread"

\* ObjectLiteralExpression.getProperty(name): the first property so named
GetProperty(props, name) ==
  LET I == {i \in 1..Len(props) : HasGetName(props[i]) /\ PropGetName(props[i]) = name}
  IN  IF I = {} THEN 0 ELSE Min(I)

IsPropertyAssignment(p) == p.form \in {"assign", "quoted"}

ArrayProps == <<"imports", "declarations", "exports">>

\* the loop over the three array properties of one decorator literal
RECURSIVE RemoveFromArrays(_, _, _, _, _)
RemoveFromArrays(path, dec, symbolName, arrayProps, acc) ==
  IF arrayProps = <<>> THEN [dec |-> dec, changes |-> acc]
  ELSE LET arrayProp == Head(arrayProps)
           i == GetProperty(dec.props, arrayProp)
           applies == i # 0 /\ IsPropertyAssignment(dec.props[i]) /\ dec.props[i].arr
           hit(e) == e.kind = "ident" /\ e.text = symbolName
           n == IF applies THEN Len(SelectSeq(dec.props[i].elems, hit)) ELSE 0
           dec1 == IF applies
                   THEN [dec EXCEPT !.props[i].elems = SelectSeq(@, LAMBDA e : ~hit(e))]
                   ELSE dec
       IN  RemoveFromArrays(path, dec1, symbolName, Tail(arrayProps),
             acc \o [k \in 1..n |-> Chg(path, <<"removed from array", symbolName, dec.kind, arrayProp>>)])

RemoveFromDec(path, dec, symbolName) ==
  IF dec.kind \notin {"NgModule", "Component"} \/ dec.arg # "literal"
  THEN [dec |-> dec, changes |-> <<>>]
  ELSE RemoveFromArrays(path, dec, symbolName, ArrayProps, <<>>)

removeFromNgModuleArraysFile(path, sf, symbolName) ==
  LET r == [c \in 1..Len(sf.classes) |->
              [d \in 1..Len(sf.classes[c].decs) |->
                 RemoveFromDec(path, sf.classes[c].decs[d], symbolName)]]
      changes == Concat([c \in 1..Len(r) |-> Concat([d \in 1..Len(r[c]) |-> r[c][d].changes])])
      classes == [c \in 1..Len(sf.classes) |->
                    [sf.classes[c] EXCEPT !.decs = [d \in 1..Len(@) |-> r[c][d].dec]]]
  IN  FileRet([sf EXCEPT !.classes = classes], changes # <<>>, changes, <<>>)

StandaloneDecorators == {"Component", "Directive", "Pipe"}

\* arg.getProperties().some(p => Node.isPropertyAssignment(p) && p.getName() === 'standalone')
HasStandalone(dec) ==
  \E i \in 1..Len(dec.props) :
     IsPropertyAssignment(dec.props[i]) /\ PropGetName(dec.props[i]) = "standalone"

NeedsStandalone(dec) ==
  dec.kind \in StandaloneDecorators /\ dec.arg = "literal" /\ ~HasStandalone(dec)

addStandaloneFalseFile(path, sf) ==
  LET classes == [c \in 1..Len(sf.classes) |->
                    [sf.classes[c] EXCEPT !.decs =
                       [d \in 1..Len(@) |->
                          IF NeedsStandalone(@[d])
                          THEN [@[d] EXCEPT !.props =
                                  <<Prop("assign", "standalone", FALSE, <<>>, "false")>> \o @]
                          ELSE @[d]]]]
      changes == Concat([c \in 1..Len(sf.classes) |->
                   Concat([d \in 1..Len(sf.classes[c].decs) |->
                      IF NeedsStandalone(sf.classes[c].decs[d])
                      THEN <<Chg(path, <<"added standalone: false",
                                         sf.classes[c].decs[d].kind, sf.classes[c].name>>)>>
                      ELSE <<>>])])
  IN  FileRet([sf EXCEPT !.classes = classes], changes # <<>>, changes, <<>>)

IsServerTransition(e) ==
  e.kind = "call" /\ e.method = "withServerTransition" /\ e.text = "BrowserModule"

CountServerTransition(sf) ==
  Concat([c \in 1..Len(sf.classes) |->
    Concat([d \in 1..Len(sf.classes[c].decs) |->
      Concat([q \in 1..Len(sf.classes[c].decs[d].props) |->
        SelectSeq(sf.classes[c].decs[d].props[q].elems, IsServerTransition)])])])

removeBrowserModuleWithServerTransitionFile(path, sf) ==
  LET n == Len(CountServerTransition(sf))
      fix(e) == IF IsServerTransition(e) THEN Ident("BrowserModule") ELSE e
      classes == [c \in 1..Len(sf.classes) |->
                    [sf.classes[c] EXCEPT !.decs =
                       [d \in 1..Len(@) |->
                          [@[d] EXCEPT !.props =
                             [q \in 1..Len(@) |->
                                [@[q] EXCEPT !.elems = [k \in 1..Len(@) |-> fix(@[k])]]]]]]]
      changes == [k \in 1..n |-> Chg(path, <<"BrowserModule.withServerTransition() -> BrowserModule">>)]
  IN  FileRet([sf EXCEPT !.classes = classes], n > 0, changes, <<>>)

(***************************************************************************)
(* Call statements: x.outer(..., y.inner(arg, ...), ...).  outer or inner  *)
(* is "" when that call is absent; outerPA / innerPA say whether the       *)
(* callee is a property access; innerPos is the position of the inner call *)
(* among the outer call's arguments (0 when there is no outer call) and    *)
(* innerArgs the number of arguments of the inner call.                    *)
(***************************************************************************)
CallStmt(outer, outerPA, inner, innerPA, innerPos, innerArgs, arg) ==
  [outer |-> outer, outerPA |-> outerPA, inner |-> inner, innerPA |-> innerPA,
   innerPos |-> innerPos, innerArgs |-> innerArgs, arg |-> arg]

CFR == "ComponentFactoryResolver"

\* mutant: only a resolveComponentFactory call nested in another call is reported
IsResolveCall_nested(c) ==
  c.inner = "resolveComponentFactory" /\ c.innerPA /\ c.innerArgs = 1 /\ c.outer # ""

IsResolveCall(c) == c.inner = "resolveComponentFactory" /\ c.innerPA /\ c.innerArgs = 1

IsInlineShape(c) == c.outer = "createComponent" /\ c.outerPA /\ c.innerPos = 1
                    /\ c.inner = "resolveComponentFactory" /\ c.innerPA /\ c.innerArgs = 1

migrateComponentFactoryResolverFile(path, sf) ==
  LET isCFR(t) == t = CFR
      paramWarnings == Concat([c \in 1..Len(sf.classes) |->
                         [k \in 1..Len(SelectSeq(sf.classes[c].params, isCFR)) |->
                            Warning(path, <<"Removed ComponentFactoryResolver constructor param",
                                            sf.classes[c].name>>)]])
      fieldsRemoved == \E c \in 1..Len(sf.classes) : \E k \in 1..Len(sf.classes[c].fields) :
                          isCFR(sf.classes[c].fields[k])
      classes == [c \in 1..Len(sf.classes) |->
                    [sf.classes[c] EXCEPT !.params = SelectSeq(@, LAMBDA t : ~isCFR(t)),
                                          !.fields = SelectSeq(@, LAMBDA t : ~isCFR(t))]]
      resolveWarnings == [k \in 1..Len(SelectSeq(sf.calls, IsResolveCall)) |->
                            Warning(path, <<"Found resolveComponentFactory",
                                            SelectSeq(sf.calls, IsResolveCall)[k].arg>>)]
      inlined == SelectSeq(sf.calls, IsInlineShape)
      calls == [k \in 1..Len(sf.calls) |->
                  IF IsInlineShape(sf.calls[k])
                  THEN [sf.calls[k] EXCEPT !.inner = "", !.innerPA = FALSE,
                                           !.innerPos = 0, !.innerArgs = 0]
                  ELSE sf.calls[k]]
      changes == [k \in 1..Len(inlined) |->
                    Chg(path, <<"createComponent(resolver.resolveComponentFactory(X)) -> createComponent(X)">>)]
  IN  FileRet([sf EXCEPT !.classes = classes, !.calls = calls],
              paramWarnings # <<>> \/ fieldsRemoved \/ inlined # <<>>,
              changes, paramWarnings \o resolveWarnings)

(***************************************************************************)
(* The project's .ts files.  disk.files and the loaded trees are sequences *)
(* aligned with SourcePaths, the order in which the project lists them.    *)
(***************************************************************************)
SourcePaths == <<"src/app.ts", "src/polyfills.ts">>

\* globSync('**/{polyfills,test,setup-jest,jest-setup,test-setup}.ts')
ZoneCandidates == {"src/polyfills.ts"}

Tree(imports, classes, calls, idents, scans) ==
  [imports |-> imports, classes |-> classes, calls |-> calls, idents |-> idents,
   scans |-> scans]

\* createTsProject: throws when the tsconfig it picks cannot be loaded
createTsProject(w) ==
  IF w.disk.tsconfig = "bad" THEN Raise(w)
  ELSE Ret([w EXCEPT !.trees = w.disk.files, !.loaded = TRUE], <<>>, <<>>)

\* mutant: the mutated trees stay in memory and nothing is saved
Commit_memoryOnly(ctx, w, res) ==
  LET n == Len(SourcePaths)
  IN  Ret([w EXCEPT !.trees = [i \in 1..n |-> res[i].tree]],
          Concat([i \in 1..n |-> res[i].changes]),
          Concat([i \in 1..n |-> res[i].warnings]))

\* the tail of every codemod's loop over the files: the mutated trees stay in
\* memory and sf.saveSync() persists a changed file unless ctx.dryRun
Commit(ctx, w, res) ==
  LET n == Len(SourcePaths)
      saved(i) == res[i].save /\ ~ctx.dryRun
      files == [i \in 1..n |-> IF saved(i) THEN res[i].tree ELSE w.disk.files[i]]
      writes == SelectSeq(SourcePaths,
                          LAMBDA q : \E i \in 1..n : SourcePaths[i] = q /\ saved(i))
  IN  Ret([w EXCEPT !.trees = [i \in 1..n |-> res[i].tree],
                    !.disk = [w.disk EXCEPT !.files = files],
                    !.events = @ \o writes],
          Concat([i \in 1..n |-> res[i].changes]),
          Concat([i \in 1..n |-> res[i].warnings]))

renameNamedImport(ctx, w, moduleName, oldName, newName) ==
  Commit(ctx, w, [i \in 1..Len(SourcePaths) |->
    renameNamedImportFile(SourcePaths[i], w.trees[i], moduleName, oldName, newName)])

moveImport(ctx, w, symbolName, fromModule, toModule) ==
  Commit(ctx, w, [i \in 1..Len(SourcePaths) |->
    moveImportFile(SourcePaths[i], w.trees[i], symbolName, fromModule, toModule)])

removeObsoleteImport(ctx, w, moduleName, symbolName) ==
  Commit(ctx, w, [i \in 1..Len(SourcePaths) |->
    removeObsoleteImportFile(SourcePaths[i], w.trees[i], moduleName, symbolName)])

removeFromNgModuleArrays(ctx, w, symbolName) ==
  Commit(ctx, w, [i \in 1..Len(SourcePaths) |->
    removeFromNgModuleArraysFile(SourcePaths[i], w.trees[i], symbolName)])

migrateComponentFactoryResolver(ctx, w) ==
  Commit(ctx, w, [i \in 1..Len(SourcePaths) |->
    migrateComponentFactoryResolverFile(SourcePaths[i], w.trees[i])])

migrateCanLoadToCanMatch(ctx, w) ==
  Commit(ctx, w, [i \in 1..Len(SourcePaths) |->
    migrateCanLoadToCanMatchFile(SourcePaths[i], w.trees[i])])

removeBrowserModuleWithServerTransition(ctx, w) ==
  Commit(ctx, w, [i \in 1..Len(SourcePaths) |->
    removeBrowserModuleWithServerTransitionFile(SourcePaths[i], w.trees[i])])

addStandaloneFalse(ctx, w) ==
  Commit(ctx, w, [i \in 1..Len(SourcePaths) |->
    addStandaloneFalseFile(SourcePaths[i], w.trees[i])])

migrateAsyncToWaitForAsync(ctx, w) ==
  renameNamedImport(ctx, w, "@angular/core/testing", "async", "waitForAsync")

\* ensureModuleWithProvidersGeneric: a read-only scan for bare type references
ensureModuleWithProvidersGeneric(ctx, w) ==
  Ret(w, <<>>,
      Concat([i \in 1..Len(SourcePaths) |->
        [k \in 1..Len(SelectSeq(w.trees[i].scans, LAMBDA t : t = "ModuleWithProviders")) |->
           Warning(SourcePaths[i], <<"ModuleWithProviders is missing a generic type parameter">>)]]))

\* removal of the domino server-side polyfill set-up: one "domino" token of
\* scans per set-up statement
removeDominoSetupFile(path, sf) ==
  LET hit == \E k \in 1..Len(sf.scans) : sf.scans[k] = "domino"
  IN  IF hit
      THEN FileRet([sf EXCEPT !.scans = SelectSeq(@, LAMBDA t : t # "domino")], TRUE,
                   <<Chg(path, <<"Removed domino SSR polyfill">>)>>, <<>>)
      ELSE Untouched(sf)

removeDominoSetup(ctx, w) ==
  Commit(ctx, w, [i \in 1..Len(SourcePaths) |->
    removeDominoSetupFile(SourcePaths[i], w.trees[i])])

(***************************************************************************)
(* Text-pattern replacement of the zone.js deep imports.  The string       *)
(* literals of a candidate file are the module specifiers of its imports;  *)
(* each pattern matches a whole literal between two equal quotes.          *)
(***************************************************************************)
ZoneReplacements ==
  << <<"zone.js/dist/zone", "zone.js">>,
     <<"zone.js/dist/zone-testing", "zone.js/testing">>,
     <<"zone.js/bundles/zone-testing.js", "zone.js/testing">>,
     <<"zone.js/dist/long-stack-trace-zone", "zone.js/plugins/long-stack-trace-zone">>,
     <<"zone.js/dist/async-test", "zone.js/testing">>,
     <<"zone.js/dist/fake-async-test", "zone.js/testing">> >>

\* the loop over the replacements: content.replace(pattern, replacement)
RECURSIVE ReplaceAll(_, _)
ReplaceAll(imports, replacements) ==
  IF replacements = <<>> THEN imports
  ELSE ReplaceAll([i \in 1..Len(imports) |->
                     IF imports[i].mod = Head(replacements)[1]
                     THEN [imports[i] EXCEPT !.mod = Head(replacements)[2]]
                     ELSE imports[i]],
                  Tail(replacements))

fixZoneJsImports(ctx, w) ==
  LET n == Len(SourcePaths)
      content(i) == [w.disk.files[i] EXCEPT !.imports = ReplaceAll(@, ZoneReplacements)]
      changed(i) == SourcePaths[i] \in ZoneCandidates /\ content(i) # w.disk.files[i]
      persist(i) == changed(i) /\ ~ctx.dryRun
      writes == SelectSeq(SourcePaths,
                          LAMBDA q : \E i \in 1..n : SourcePaths[i] = q /\ persist(i))
  IN  Ret([w EXCEPT !.disk = [w.disk EXCEPT !.files =
                                [i \in 1..n |-> IF persist(i) THEN content(i) ELSE @[i]]],
                    !.events = @ \o writes],
          Concat([i \in 1..n |->
                    IF changed(i)
                    THEN <<Chg(SourcePaths[i], <<"Fixed zone.js deep imports">>)>>
                    ELSE <<>>]),
          <<>>)

(***************************************************************************)
(* Read-only scans of the steps.                                           *)
(***************************************************************************)
\* one Warning per occurrence of one of the tokens, file by file
ScanTokens(w, tokens) ==
  Ret(w, <<>>,
      Concat([i \in 1..Len(SourcePaths) |->
        [k \in 1..Len(SelectSeq(w.trees[i].scans, LAMBDA t : t \in tokens)) |->
           Warning(SourcePaths[i], <<SelectSeq(w.trees[i].scans, LAMBDA t : t \in tokens)[k]>>)]]))

\* NgModule decorators whose argument text includes 'entryComponents'
ScanEntryComponents(w) ==
  LET hit(d) == d.kind = "NgModule" /\ d.arg = "literal"
                /\ \E q \in 1..Len(d.props) : d.props[q].name = "entryComponents"
  IN  Ret(w, <<>>,
          Concat([i \in 1..Len(SourcePaths) |->
            Concat([c \in 1..Len(w.trees[i].classes) |->
              [k \in 1..Len(SelectSeq(w.trees[i].classes[c].decs, hit)) |->
                 Warning(SourcePaths[i], <<"entryComponents", w.trees[i].classes[c].name>>)]])]))

\* files that import one of the names from the module: one Warning per
\* import declaration (perFile = FALSE) or per file (perFile = TRUE)
ScanImports(w, modules, names, perFile) ==
  LET hit(imp) == imp.mod \in modules /\ \E j \in 1..Len(imp.names) : imp.names[j].name \in names
      found(imp) == SelectSeq([j \in 1..Len(imp.names) |-> imp.names[j].name],
                              LAMBDA x : x \in names)
      hits(i) == SelectSeq(w.trees[i].imports, hit)
  IN  Ret(w, <<>>,
          Concat([i \in 1..Len(SourcePaths) |->
            IF perFile
            THEN (IF hits(i) # <<>> THEN <<Warning(SourcePaths[i], <<"deprecated import">>)>>
                  ELSE <<>>)
            ELSE [k \in 1..Len(hits(i)) |->
                    Warning(SourcePaths[i], <<"deprecated import">> \o found(hits(i)[k]))]]))

(***************************************************************************)
(* The steps.  A step is the ordered list of its primitive invocations;    *)
(* fwdC / fwdW say whether run() pushes the Changes / Warnings the         *)
(* primitive returned into its result, msg is the message run() puts on    *)
(* the forwarded Warnings (<<>>: left as returned) and extra is the        *)
(* Warning run() adds when the primitive returned at least one Change.     *)
(***************************************************************************)
Op(prim, a, b, c, fwdC, fwdW, msg, extra) ==
  [prim |-> prim, a |-> a, b |-> b, c |-> c, fwdC |-> fwdC, fwdW |-> fwdW,
   msg |-> msg, extra |-> extra]

P0(prim) == Op(prim, "", "", "", TRUE, TRUE, <<>>, <<>>)

Mv(sym, from, to) == Op("moveImport", sym, from, to, TRUE, TRUE, <<>>, <<>>)

Rn(mod, old, new) == Op("renameNamedImport", mod, old, new, TRUE, TRUE, <<>>, <<>>)

Rm(mod, sym, fwdC, fwdW, msg) == Op("removeObsoleteImport", mod, sym, "", fwdC, fwdW, msg, <<>>)

Rf(sym) == Op("removeFromNgModuleArrays", sym, "", "", TRUE, TRUE, <<>>, <<>>)

Warn(msg) == Op("warn", "angular.json", msg, "", TRUE, TRUE, <<>>, <<>>)

Scan(tokens) == Op("scan", tokens, "", "", TRUE, TRUE, <<>>, <<>>)

AngularPackages == <<"@angular/core", "@angular/cli">>

\* the updates of a step: the @angular packages at ^N.x.0 and the others
Updates(to) ==
  [i \in 1..Len(AngularPackages) |->
     <<AngularPackages[i], V("^", to, IF to = 17 THEN ".3.0" ELSE ".2.0")>>]
  \o <<<<"typescript", V("~", 5, CASE to = 16 -> ".1.0" [] to = 17 -> ".2.0"
                                   [] to = 18 -> ".4.0" [] OTHER -> ".6.0")>>>>
  \o (IF to = 16 THEN << <<"zone.js", V("~", 0, ".13.0")>>, <<"rxjs", V("~", 7, ".8.0")>> >>
      ELSE IF to = 17 THEN << <<"zone.js", V("~", 0, ".14.0")>> >>
      ELSE <<>>)

\* mutant: the exception of createTsProject leaves run()
LoadFailed_raise(w) == Raise(w)

\* catch (e) { result.warnings.push({ file: 'tsconfig.json', ... }); return result; }
LoadFailed(w) ==
  Ret([w EXCEPT !.returned = TRUE], <<>>,
      <<Warning("tsconfig.json", <<"Could not load TypeScript project">>)>>)

ApplyPrim(ctx, op, w) ==
  CASE op.prim = "updatePackageVersions" -> updatePackageVersions(ctx, Updates(op.a), w)
    [] op.prim = "replacePackageDependency" ->
         replacePackageDependency(ctx, op.a, op.b, V("^", 17, ".3.0"), w)
    [] op.prim = "migrateBrowserBuilderToApplication" -> migrateBrowserBuilderToApplication(ctx, w)
    [] op.prim = "removeDefaultProject" -> removeDefaultProject(ctx, w)
    [] op.prim = "fixZoneJsImports" -> fixZoneJsImports(ctx, w)
    [] op.prim = "createTsProject" ->
         \* try { createTsProject } catch { result.warnings.push(...); return result }
         LET r == createTsProject(w)
         IN  IF r.w.raised
             THEN LoadFailed(w)
             ELSE r
    [] op.prim = "moveImport" -> moveImport(ctx, w, op.a, op.b, op.c)
    [] op.prim = "renameNamedImport" -> renameNamedImport(ctx, w, op.a, op.b, op.c)
    [] op.prim = "removeObsoleteImport" -> removeObsoleteImport(ctx, w, op.a, op.b)
    [] op.prim = "removeFromNgModuleArrays" -> removeFromNgModuleArrays(ctx, w, op.a)
    [] op.prim = "migrateComponentFactoryResolver" -> migrateComponentFactoryResolver(ctx, w)
    [] op.prim = "migrateCanLoadToCanMatch" -> migrateCanLoadToCanMatch(ctx, w)
    [] op.prim = "removeBrowserModuleWithServerTransition" ->
         removeBrowserModuleWithServerTransition(ctx, w)
    [] op.prim = "addStandaloneFalse" -> addStandaloneFalse(ctx, w)
    [] op.prim = "migrateAsyncToWaitForAsync" -> migrateAsyncToWaitForAsync(ctx, w)
    [] op.prim = "removeDominoSetup" -> removeDominoSetup(ctx, w)
    [] op.prim = "ensureModuleWithProvidersGeneric" -> ensureModuleWithProvidersGeneric(ctx, w)
    [] op.prim = "scan" -> ScanTokens(w, op.a)
    [] op.prim = "scanEntryComponents" -> ScanEntryComponents(w)
    [] op.prim = "scanImports" -> ScanImports(w, op.a, op.b, op.c)
    [] op.prim = "warn" -> Ret(w, <<>>, <<Warning(op.a, <<op.b>>)>>)

\* what run() does with the result of one invocation
Forward(op, r, acc) ==
  [w |-> r.w,
   changes |-> acc.changes \o (IF op.fwdC THEN r.changes ELSE <<>>),
   warnings |-> acc.warnings
                \o (IF ~op.fwdW THEN <<>>
                    ELSE IF op.msg = <<>> THEN r.warnings
                    ELSE [k \in 1..Len(r.warnings) |-> [r.warnings[k] EXCEPT !.message = op.msg]])
                \o (IF op.extra # <<>> /\ r.changes # <<>>
                    THEN <<Warning("angular.json", op.extra)>> ELSE <<>>)]

\* the body of run(): the invocations in order, until one raises or returns
RECURSIVE RunOps(_, _, _)
RunOps(ctx, ops, acc) ==
  IF ops = <<>> \/ acc.w.raised \/ acc.w.returned THEN acc
  ELSE RunOps(ctx, Tail(ops), Forward(Head(ops), ApplyPrim(ctx, Head(ops), acc.w), acc))

Start(d) == [w |-> World(d), changes |-> <<>>, warnings |-> <<>>]

v15ToV16 ==
  << Op("updatePackageVersions", 16, "", "", TRUE, TRUE, <<>>, <<>>),
     P0("createTsProject"),
     Mv("TransferState", "@angular/platform-browser", "@angular/core"),
     Mv("makeStateKey", "@angular/platform-browser", "@angular/core"),
     Mv("StateKey", "@angular/platform-browser", "@angular/core"),
     Mv("XhrFactory", "@angular/common/http", "@angular/common"),
     Rm("@angular/platform-browser", "BrowserTransferStateModule", TRUE, FALSE, <<>>),
     Rf("BrowserTransferStateModule"),
     Rm("@angular/platform-server", "ServerTransferStateModule", TRUE, TRUE,
        <<"ServerTransferStateModule removed">>),
     Rf("ServerTransferStateModule"),
     Rm("@angular/platform-server", "renderModuleFactory", TRUE, TRUE, <<"renderModuleFactory removed">>),
     Rm("@angular/core", "ANALYZE_FOR_ENTRY_COMPONENTS", TRUE, FALSE, <<>>),
     Rm("@angular/core", "ReflectiveInjector", TRUE, TRUE, <<"ReflectiveInjector removed">>),
     P0("scanEntryComponents"),
     P0("ensureModuleWithProvidersGeneric"),
     Op("scanImports", {"@angular/router"}, {"CanLoad"}, TRUE, TRUE, TRUE, <<>>, <<>>),
     Warn("[Angular 16] CSS keyframe animation names are now scoped per component") >>

v16ToV17 ==
  << Op("updatePackageVersions", 17, "", "", TRUE, TRUE, <<>>, <<>>),
     P0("migrateBrowserBuilderToApplication"),
     P0("removeDefaultProject"),
     P0("fixZoneJsImports"),
     Op("replacePackageDependency", "@nguniversal/express-engine", "@angular/ssr", "",
        TRUE, TRUE, <<>>, <<>>),
     P0("createTsProject"),
     Rn("@angular/router", "RouterLinkWithHref", "RouterLink"),
     Mv("ngExpressEngine", "@nguniversal/express-engine", "@angular/ssr"),
     Mv("CommonEngine", "@nguniversal/express-engine", "@angular/ssr/node"),
     P0("removeDominoSetup"),
     P0("migrateCanLoadToCanMatch"),
     P0("migrateComponentFactoryResolver"),
     Rm("@angular/core", "ComponentFactory", TRUE, FALSE, <<>>),
     Rm("@angular/core", "ComponentFactoryResolver", TRUE, FALSE, <<>>),
     Rm("@angular/router/testing", "setupTestingRouter", TRUE, TRUE, <<"setupTestingRouter() removed">>),
     Rm("@angular/platform-browser", "withNoDomReuse", TRUE, TRUE, <<"withNoDomReuse() removed">>),
     Scan({"mutate"}),
     Scan({"urlHandlingStrategy=", "canceledNavigationResolution=", "paramsInheritanceStrategy=",
           "titleStrategy=", "urlUpdateStrategy=", "malformedUriErrorHandler="}),
     P0("scanEntryComponents"),
     Warn("[Angular 17] REMOVE_STYLES_ON_COMPONENT_DESTROY now defaults to true"),
     Warn("[Angular 17] NgSwitch now uses strict equality"),
     Warn("[Angular 17] Router absolute redirects are now non-terminal") >>

v17ToV18 ==
  << Op("updatePackageVersions", 18, "", "", TRUE, TRUE, <<>>, <<>>),
     P0("createTsProject"),
     P0("migrateAsyncToWaitForAsync"),
     Rm("@angular/common", "isPlatformWorkerUi", TRUE, TRUE, <<"isPlatformWorkerUi() removed in Angular 18">>),
     Rm("@angular/common", "isPlatformWorkerApp", TRUE, TRUE, <<"isPlatformWorkerApp() removed in Angular 18">>),
     Rm("@angular/platform-server", "platformDynamicServer", TRUE, TRUE, <<"platformDynamicServer removed">>),
     Rm("@angular/platform-browser-dynamic", "RESOURCE_CACHE_PROVIDER", TRUE, FALSE, <<>>),
     Rm("@angular/animations/browser", "AnimationDriver", FALSE, FALSE, <<>>),
     Scan({"matchesElement"}),
     Scan({"increasePendingRequestCount", "decreasePendingRequestCount", "getPendingRequestCount"}),
     Scan({"swUpdate.available", "swUpdate.activated"}),
     Op("scanImports", {"@angular/common/http"},
        {"HttpClientModule", "HttpClientXsrfModule", "HttpClientJsonpModule"}, FALSE,
        TRUE, TRUE, <<>>, <<>>),
     Warn("[Angular 18] withHttpTransferCache now excludes requests with Authorization headers"),
     Warn("[Angular 18] Infinite change detection loops now throw NG0103"),
     Warn("[Angular 18] Two-way bindings now require writable expressions"),
     Warn("[Angular 18] Router: component providers no longer come from RouterOutlet") >>

MaterialModules == {"@angular/material", "@angular/material/legacy-button"}

LegacyMaterialModules == {"MatLegacyButtonModule", "MatLegacyCardModule"}

v18ToV19 ==
  << Op("updatePackageVersions", 19, "", "", TRUE, TRUE, <<>>, <<>>),
     P0("createTsProject"),
     Rn("@angular/core", "ExperimentalPendingTasks", "PendingTasks"),
     Op("removeBrowserModuleWithServerTransition", "", "", "", TRUE, TRUE, <<>>,
        <<"BrowserModule.withServerTransition() removed">>),
     Rm("@angular/core", "KeyValueDiffers", FALSE, FALSE, <<>>),
     Scan({"differs.factories"}),
     Scan({"router.errorHandler="}),
     Op("addStandaloneFalse", "", "", "", TRUE, TRUE, <<>>,
        <<"[Angular 19] Added standalone: false">>),
     Op("scanImports", MaterialModules, LegacyMaterialModules, FALSE, TRUE, TRUE, <<>>, <<>>),
     Warn("[Angular 19] Signal effects now run during change detection"),
     Warn("[Angular 19] [routerLink]=null now removes the href attribute"),
     Warn("[Angular 19] Template property reads"),
     Warn("[Angular 19] ApplicationRef.tick() errors in TestBed are now rethrown") >>

(***************************************************************************)
(* The declared steps and step.run(ctx).                                   *)
(***************************************************************************)
ALL_STEPS ==
  << [from |-> 15, to |-> 16, name |-> "Angular 15 -> 16"],
     [from |-> 16, to |-> 17, name |-> "Angular 16 -> 17"],
     [from |-> 17, to |-> 18, name |-> "Angular 17 -> 18"],
     [from |-> 18, to |-> 19, name |-> "Angular 18 -> 19"] >>

RuleSet(step) == CASE step.from = 15 -> v15ToV16
                   [] step.from = 16 -> v16ToV17
                   [] step.from = 17 -> v17ToV18
                   [] step.from = 18 -> v18ToV19

\* step.run(ctx) on the persisted project d: the result it returns (or the
\* exception it raises), the project it leaves and the writes it made
StepRun(step, ctx, d) ==
  LET acc == RunOps(ctx, RuleSet(step), Start(d))
  IN  [step |-> step.name, changes |-> acc.changes, warnings |-> acc.warnings,
       raised |-> acc.w.raised, disk |-> acc.w.disk, events |-> acc.w.events,
       trees |-> acc.w.trees]

(***************************************************************************)
(* Projects the runs start from.                                           *)
(***************************************************************************)
NoDoc == [x \in {} |-> NoDeps]

PkgAbsent == [st |-> "absent", doc |-> NoDoc]

PkgMalformed == [st |-> "malformed", doc |-> NoDoc]

PkgOk(doc) == [st |-> "ok", doc |-> doc]

\* a manifest of an Angular project at major version v
PkgAt(v) ==
  PkgOk([x \in {"dependencies", "devDependencies"} |->
           IF x = "dependencies"
           THEN [n \in {"@angular/core", "rxjs", "zone.js", "@nguniversal/express-engine"} |->
                   CASE n = "@angular/core" -> V("^", v, ".2.0")
                     [] n = "rxjs" -> V("~", 7, ".5.0")
                     [] n = "zone.js" -> V("~", 0, ".12.0")
                     [] OTHER -> V("^", v, ".0.0")]
           ELSE [n \in {"@angular/cli", "typescript"} |->
                   IF n = "typescript" THEN V("~", 4, ".9.0") ELSE V("~", v, ".2.0")]])

\* no framework entry, an entry without a digit, an empty entry, and an
\* entry in devDependencies that overrides the one in dependencies
PkgNoCore == PkgOk([x \in {"dependencies"} |-> Deps1("rxjs", V("~", 7, ".5.0"))])

PkgLatest == PkgOk([x \in {"dependencies"} |-> Deps1("@angular/core", V("latest", NoVersion, ""))])

PkgEmptyEntry == PkgOk([x \in {"dependencies"} |-> Deps1("@angular/core", EmptyString)])

PkgDevOverride ==
  PkgOk([x \in {"dependencies", "devDependencies", "peerDependencies"} |->
           IF x = "devDependencies" THEN Deps1("@angular/core", V(">=", 16, ".0.0 <18"))
           ELSE Deps1("@angular/core", V("^", 15, ".2.0"))])

NgProject(name, architect, build, builder, options, main, polyfills) ==
  [name |-> name, architect |-> architect, build |-> build, builder |-> builder,
   options |-> options, main |-> main, browser |-> FALSE, polyfills |-> polyfills]

NgDoc(defaultProject, hasProjects, projects) ==
  [defaultProject |-> defaultProject, hasProjects |-> hasProjects, projects |-> projects]

NgAbsent == [st |-> "absent", doc |-> NgDoc(FALSE, FALSE, <<>>)]

NgMalformed == [st |-> "malformed", doc |-> NgDoc(FALSE, FALSE, <<>>)]

NgBrowser ==
  [st |-> "ok",
   doc |-> NgDoc(TRUE, TRUE,
                 <<NgProject("app", TRUE, TRUE, BrowserBuilder, TRUE, TRUE, "string"),
                   NgProject("lib", TRUE, FALSE, "", FALSE, FALSE, "none"),
                   NgProject("e2e", FALSE, FALSE, "", FALSE, FALSE, "none")>>)]

NgEsbuild ==
  [st |-> "ok",
   doc |-> NgDoc(FALSE, TRUE,
                 <<NgProject("app", TRUE, TRUE, EsbuildBuilder, TRUE, TRUE, "array")>>)]

NgNoProjects == [st |-> "ok", doc |-> NgDoc(TRUE, FALSE, <<>>)]

EmptyTree == Tree(<<>>, <<>>, <<>>, <<>>, <<>>)

\* an application that uses the APIs the four steps rewrite
AppTree ==
  Tree(<< Imp("@angular/core", <<NI("Component", ""), NI("NgModule", ""),
                                  NI("ComponentFactoryResolver", ""),
                                  NI("ExperimentalPendingTasks", ""),
                                  NI("KeyValueDiffers", "")>>),
          Imp("@angular/platform-browser", <<NI("BrowserModule", ""), NI("TransferState", ""),
                                              NI("BrowserTransferStateModule", "")>>),
          Imp("@angular/router", <<NI("CanLoad", ""), NI("RouterLinkWithHref", "")>>),
          Imp("@angular/common/http", <<NI("HttpClientModule", ""), NI("XhrFactory", "")>>),
          Imp("@nguniversal/express-engine", <<NI("ngExpressEngine", "")>>),
          Imp("@angular/core/testing", <<NI("async", "")>>) >>,
       << Class("AppModule",
                <<Dec("NgModule", "literal",
                      <<Prop("assign", "imports", TRUE,
                             <<CallElem("BrowserModule", "withServerTransition"),
                               Ident("BrowserTransferStateModule"), Ident("HttpClientModule")>>, ""),
                        Prop("assign", "entryComponents", TRUE, <<Ident("AppComponent")>>, "")>>)>>,
                <<>>, <<>>),
          Class("AppComponent",
                <<Dec("Component", "literal", <<Prop("assign", "selector", FALSE, <<>>, "'app'")>>)>>,
                <<CFR, "ViewContainerRef">>, <<CFR>>),
          Class("Guard", <<Dec("Injectable", "none", <<>>)>>, <<>>, <<>>) >>,
       << CallStmt("createComponent", TRUE, "resolveComponentFactory", TRUE, 1, 1, "AppComponent"),
          CallStmt("", FALSE, "resolveComponentFactory", TRUE, 0, 1, "AppComponent") >>,
       << [text |-> "CanLoad", role |-> "implements"],
          [text |-> "async", role |-> "call"] >>,
       << "mutate", "domino", "ModuleWithProviders", "router.errorHandler=", "matchesElement" >>)

\* the same symbol imported twice from one module under two local names
AliasTree ==
  Tree(<< Imp("@angular/platform-browser", <<NI("TransferState", ""), NI("TransferState", "TS")>>),
          Imp("@angular/core", <<NI("ReflectiveInjector", "")>>),
          Imp("@angular/core", <<NI("ReflectiveInjector", "RI"), NI("Pipe", "")>>) >>,
       <<>>, <<>>, <<>>, <<>>)

\* annotation literals that set 'standalone' in the forms the language allows
StandaloneTree ==
  Tree(<< Imp("@angular/core", <<NI("Component", ""), NI("Directive", ""), NI("Pipe", "")>>) >>,
       << Class("A", <<Dec("Component", "literal", <<Prop("assign", "standalone", FALSE, <<>>, "true")>>)>>, <<>>, <<>>),
          Class("B", <<Dec("Directive", "literal", <<Prop("shorthand", "standalone", FALSE, <<>>, "")>>)>>, <<>>, <<>>),
          Class("C", <<Dec("Pipe", "literal", <<Prop("quoted", "standalone", FALSE, <<>>, "true")>>)>>, <<>>, <<>>),
          Class("D", <<Dec("Component", "expr", <<>>)>>, <<>>, <<>>) >>,
       <<>>, <<>>, <<>>)

PolyDeep == Tree(<< Imp("zone.js/dist/zone", <<>>), Imp("zone.js/dist/zone-testing", <<>>),
                    Imp("@angular/router", <<NI("RouterLinkWithHref", "")>>) >>,
                 <<>>, <<>>, <<>>, <<>>)

PolyShallow == Tree(<< Imp("zone.js", <<>>) >>, <<>>, <<>>, <<>>, <<>>)

Disk(pkg, ng, tsconfig, app, poly) ==
  [pkg |-> pkg, ng |-> ng, tsconfig |-> tsconfig, files |-> <<app, poly>>]

BaseProject == Disk(PkgAt(15), NgBrowser, "ok", AppTree, PolyDeep)

\* the base project and its variations, one part at a time
Projects ==
  {BaseProject}
  \cup {Disk(pkg, NgBrowser, "ok", AppTree, PolyDeep) :
          pkg \in {PkgAbsent, PkgMalformed, PkgAt(16), PkgAt(17), PkgAt(18), PkgAt(19),
                   PkgNoCore, PkgLatest, PkgEmptyEntry, PkgDevOverride}}
  \cup {Disk(PkgAt(15), ng, "ok", AppTree, PolyDeep) :
          ng \in {NgAbsent, NgMalformed, NgEsbuild, NgNoProjects}}
  \cup {Disk(PkgAt(15), NgBrowser, "bad", AppTree, PolyDeep)}
  \cup {Disk(PkgAt(15), NgEsbuild, "ok", app, PolyShallow) :
          app \in {EmptyTree, AliasTree, StandaloneTree}}

(***************************************************************************)
(* migrate(options): the orchestrator.                                     *)
(***************************************************************************)
Options ==
  [projectExists : BOOLEAN,
   fromVersion : {NoVersion} \cup (VersionLo..VersionHi),
   toVersion : {NoVersion} \cup (VersionLo..VersionHi),
   dryRun : BOOLEAN, skipPackageJson : BOOLEAN]

Ctx(o) == [dryRun |-> o.dryRun, skipPackageJson |-> o.skipPackageJson]

NoUnit == [w |-> World(BaseProject), log |-> <<>>]

Init ==
  /\ opts \in Options
  /\ disk \in Projects
  /\ opts.projectExists \/ (~opts.dryRun /\ ~opts.skipPackageJson)
  /\ disk0 = disk
  /\ pc = "start"
  /\ stepsToRun = <<>>
  /\ idx = 0
  /\ ran = <<>>
  /\ allResults = <<>>
  /\ logger = [info |-> 0, warn |-> 0, error |-> 0]
  /\ written = <<>>
  /\ currentVersion = NoVersion
  /\ toVersion = NoVersion
  /\ runs = <<>>
  /\ unit = NoUnit

\* mutant: the early return misses currentVersion = toVersion
AlreadyAtTarget_strict(cur, to) == cur > to

\* if (currentVersion >= toVersion) { logger.info(...); return; }
AlreadyAtTarget(cur, to) == cur >= to

\* mutant: the filter drops the step that starts at currentVersion
SelectSteps_strict(cur, to) == SelectSeq(ALL_STEPS, LAMBDA s : s.from > cur /\ s.to <= to)

\* ALL_STEPS.filter(s => s.from >= currentVersion && s.to <= toVersion)
SelectSteps(cur, to) == SelectSeq(ALL_STEPS, LAMBDA s : s.from >= cur /\ s.to <= to)

\* mutant: the no-op is reported with logger.info
WarnNoSteps_info(lg) == [lg EXCEPT !.info = @ + 1]

\* logger.warn(`No migration steps found ...`)
WarnNoSteps(lg) == [lg EXCEPT !.warn = @ + 1]

\* mutant: the catch block pushes a result without the error
ErrorResult_empty(step) ==
  [step |-> step.name, changes |-> <<>>, warnings |-> <<>>, errors |-> <<>>]

\* the result the catch block pushes for a step that raised
ErrorResult(step) ==
  [step |-> step.name, changes |-> <<>>, warnings |-> <<>>,
   errors |-> <<[file |-> "migrator", message |-> step.name]>>]

\* migrate up to the loop over the steps
MigrateSetup ==
  /\ pc = "start"
  /\ LET detected == detectAngularVersion(disk)
         cur == IF opts.fromVersion # NoVersion THEN opts.fromVersion ELSE detected.version
         to == IF opts.toVersion # NoVersion THEN opts.toVersion ELSE 19
         steps == SelectSteps(cur, to)
     IN  IF ~opts.projectExists \/ (opts.fromVersion = NoVersion /\ ~detected.ok)
         THEN /\ pc' = "failed"
              /\ UNCHANGED <<currentVersion, toVersion, logger, stepsToRun, idx>>
         ELSE /\ currentVersion' = cur
              /\ toVersion' = to
              /\ IF AlreadyAtTarget(cur, to)
                 THEN /\ logger' = [logger EXCEPT !.info = @ + 1]
                      /\ pc' = "done"
                      /\ UNCHANGED <<stepsToRun, idx>>
                 ELSE IF steps = <<>>
                 THEN /\ logger' = WarnNoSteps(logger)
                      /\ pc' = "done"
                      /\ stepsToRun' = steps
                      /\ UNCHANGED idx
                 ELSE /\ stepsToRun' = steps
                      /\ idx' = 1
                      /\ pc' = "steps"
                      /\ UNCHANGED logger
  /\ UNCHANGED <<opts, disk, disk0, ran, allResults, written, runs, unit>>

\* one iteration of the loop: try { step.run(ctx) } catch { record an error }
MigrateRunStep ==
  /\ pc = "steps"
  /\ idx <= Len(stepsToRun)
  /\ \E step \in {stepsToRun[idx]} : \E r \in {StepRun(step, Ctx(opts), disk)} :
         /\ disk' = r.disk
         /\ written' = written \o r.events
         /\ ran' = Append(ran, [from |-> step.from, to |-> step.to, raised |-> r.raised,
                                 pre |-> disk])
         /\ IF r.raised
            THEN /\ logger' = [logger EXCEPT !.error = @ + 1]
                 /\ allResults' = Append(allResults, ErrorResult(step))
            ELSE /\ UNCHANGED logger
                 /\ allResults' = Append(allResults,
                      [step |-> r.step, changes |-> r.changes, warnings |-> r.warnings,
                       errors |-> <<>>])
  /\ idx' = idx + 1
  /\ UNCHANGED <<pc, opts, disk0, stepsToRun, currentVersion, toVersion, runs, unit>>

\* mutant: the report is written as soon as one step has run
MigrateFinish_early ==
  /\ pc = "steps"
  /\ idx > 1
  /\ written' = Append(written, "migration-report.md")
  /\ pc' = "done"
  /\ UNCHANGED <<opts, disk, disk0, stepsToRun, idx, ran, allResults, logger,
                 currentVersion, toVersion, runs, unit>>

\* writeReport and the summary
MigrateFinish ==
  /\ pc = "steps"
  /\ idx > Len(stepsToRun)
  /\ written' = Append(written, "migration-report.md")
  /\ pc' = "done"
  /\ UNCHANGED <<opts, disk, disk0, stepsToRun, idx, ran, allResults, logger,
                 currentVersion, toVersion, runs, unit>>

Next == MigrateSetup \/ MigrateRunStep \/ MigrateFinish

Spec == Init /\ [][Next]_vars

(***************************************************************************)
(* One step run at a time: step.run(ctx) in preview or in applied mode on  *)
(* the project as the runs before it left it.                              *)
(***************************************************************************)
InitStep ==
  /\ opts \in {o \in Options : o.projectExists /\ o.fromVersion = NoVersion
                               /\ o.toVersion = NoVersion /\ ~o.dryRun}
  /\ disk \in Projects
  /\ disk0 = disk
  /\ pc = "step"
  /\ stepsToRun = <<>>
  /\ idx = 0
  /\ ran = <<>>
  /\ allResults = <<>>
  /\ logger = [info |-> 0, warn |-> 0, error |-> 0]
  /\ written = <<>>
  /\ currentVersion = NoVersion
  /\ toVersion = NoVersion
  /\ runs = <<>>
  /\ unit = NoUnit

StepCtx(dry) == [dryRun |-> dry, skipPackageJson |-> opts.skipPackageJson]

\* the record of one step.run(ctx) on the current project, r being its outcome
RunOnce(step, dry, r) ==
  [step |-> step.name, dryRun |-> dry, pre |-> disk, post |-> r.disk,
   changes |-> r.changes, warnings |-> r.warnings, raised |-> r.raised,
   events |-> r.events]

StepPreview ==
  /\ pc = "step"
  /\ Len(runs) < MaxRuns
  /\ \E i \in 1..Len(ALL_STEPS) :
        \E r \in {StepRun(ALL_STEPS[i], StepCtx(TRUE), disk)} :
           /\ runs' = Append(runs, RunOnce(ALL_STEPS[i], TRUE, r))
           /\ disk' = r.disk
  /\ UNCHANGED <<pc, opts, disk0, stepsToRun, idx, ran, allResults, logger, written,
                 currentVersion, toVersion, unit>>

StepApplied ==
  /\ pc = "step"
  /\ Len(runs) < MaxRuns
  /\ \E i \in 1..Len(ALL_STEPS) :
        \E r \in {StepRun(ALL_STEPS[i], StepCtx(FALSE), disk)} :
           /\ runs' = Append(runs, RunOnce(ALL_STEPS[i], FALSE, r))
           /\ disk' = r.disk
  /\ UNCHANGED <<pc, opts, disk0, stepsToRun, idx, ran, allResults, logger, written,
                 currentVersion, toVersion, unit>>

NextStep == StepPreview \/ StepApplied

SpecStep == InitStep /\ [][NextStep]_vars

(***************************************************************************)
(* One primitive invocation at a time, in applied mode, on the files of a  *)
(* loaded project: the import declarations and the annotation literals of  *)
(* src/app.ts are drawn from small sets.                                   *)
(***************************************************************************)
SeqsUpTo(S, n) == UNION {[1..k -> S] : k \in 0..n}

MovedSymbol == "TransferState"

UnitModules == {"@angular/platform-browser", "@angular/core"}

\* { X }, { X as TS } and { X, Pipe }
UnitNameLists ==
  { <<NI(MovedSymbol, "")>>, <<NI(MovedSymbol, "TS")>>, <<NI(MovedSymbol, ""), NI("Pipe", "")>> }

ImportTrees ==
  {Tree(imps, <<>>, <<>>, <<>>, <<>>) :
     imps \in SeqsUpTo({Imp(m, ns) : m \in UnitModules, ns \in UnitNameLists}, MaxImports)}

UnitProps ==
  { Prop("assign", "standalone", FALSE, <<>>, "true"),
    Prop("quoted", "standalone", FALSE, <<>>, "true"),
    Prop("shorthand", "standalone", FALSE, <<>>, ""),
    Prop("spread", "base", FALSE, <<>>, ""),
    Prop("assign", "selector", FALSE, <<>>, "'x'") }

\* literals of up to MaxProps properties, no two of them with the same name
MetaTrees ==
  {Tree(<<>>, <<Class("A", <<Dec("Directive", "literal", ps)>>, <<>>, <<>>)>>, <<>>, <<>>, <<>>) :
     ps \in {qs \in SeqsUpTo(UnitProps, MaxProps) :
               \A i, j \in 1..Len(qs) : i # j => qs[i].name # qs[j].name}}

UnitProjects ==
  {Disk(PkgAt(18), NgEsbuild, "ok", app, PolyShallow) :
     app \in ImportTrees \cup MetaTrees \cup {AppTree, AliasTree, StandaloneTree}}
  \cup {Disk(PkgAt(16), NgEsbuild, "ok", EmptyTree, PolyDeep)}

UnitCtx == [dryRun |-> FALSE, skipPackageJson |-> FALSE]

InitPrim ==
  /\ opts \in {o \in Options : o.projectExists /\ o.fromVersion = NoVersion
                               /\ o.toVersion = NoVersion /\ ~o.dryRun /\ ~o.skipPackageJson}
  /\ disk \in UnitProjects
  /\ disk0 = disk
  /\ pc = "prim"
  /\ stepsToRun = <<>>
  /\ idx = 0
  /\ ran = <<>>
  /\ allResults = <<>>
  /\ logger = [info |-> 0, warn |-> 0, error |-> 0]
  /\ written = <<>>
  /\ currentVersion = NoVersion
  /\ toVersion = NoVersion
  /\ runs = <<>>
  /\ unit = [w |-> createTsProject(World(disk)).w, log |-> <<>>]

\* one invocation, r being its outcome: the trees and the persisted files
\* before and after it, what it returned and the files it persisted
PrimCall(op, r) ==
  [w |-> r.w,
   log |-> Append(unit.log,
             [op |-> op, pre |-> unit.w.trees, post |-> r.w.trees,
              filesPre |-> unit.w.disk.files, filesPost |-> r.w.disk.files,
              changes |-> r.changes, warnings |-> r.warnings,
              writes |-> SubSeq(r.w.events, Len(unit.w.events) + 1, Len(r.w.events))])]

PrimRename ==
  /\ pc = "prim"
  /\ Len(unit.log) < MaxPrimCalls
  /\ \E r \in {ApplyPrim(UnitCtx, Rn("@angular/platform-browser", MovedSymbol, "State"), unit.w)} :
        unit' = PrimCall(Rn("@angular/platform-browser", MovedSymbol, "State"), r) /\ disk' = r.w.disk
  /\ UNCHANGED <<pc, opts, disk0, stepsToRun, idx, ran, allResults, logger, written,
                 currentVersion, toVersion, runs>>

PrimMove ==
  /\ pc = "prim"
  /\ Len(unit.log) < MaxPrimCalls
  /\ \E from \in UnitModules : \E to \in UnitModules :
        \E r \in {ApplyPrim(UnitCtx, Mv(MovedSymbol, from, to), unit.w)} :
           unit' = PrimCall(Mv(MovedSymbol, from, to), r) /\ disk' = r.w.disk
  /\ UNCHANGED <<pc, opts, disk0, stepsToRun, idx, ran, allResults, logger, written,
                 currentVersion, toVersion, runs>>

PrimDrop ==
  /\ pc = "prim"
  /\ Len(unit.log) < MaxPrimCalls
  /\ \E m \in UnitModules :
        \E r \in {ApplyPrim(UnitCtx, Rm(m, MovedSymbol, TRUE, TRUE, <<>>), unit.w)} :
           unit' = PrimCall(Rm(m, MovedSymbol, TRUE, TRUE, <<>>), r) /\ disk' = r.w.disk
  /\ UNCHANGED <<pc, opts, disk0, stepsToRun, idx, ran, allResults, logger, written,
                 currentVersion, toVersion, runs>>

PrimRemoveFromArrays ==
  /\ pc = "prim"
  /\ Len(unit.log) < MaxPrimCalls
  /\ \E r \in {ApplyPrim(UnitCtx, Rf("HttpClientModule"), unit.w)} :
        unit' = PrimCall(Rf("HttpClientModule"), r) /\ disk' = r.w.disk
  /\ UNCHANGED <<pc, opts, disk0, stepsToRun, idx, ran, allResults, logger, written,
                 currentVersion, toVersion, runs>>

PrimComponentFactoryResolver ==
  /\ pc = "prim"
  /\ Len(unit.log) < MaxPrimCalls
  /\ \E r \in {ApplyPrim(UnitCtx, P0("migrateComponentFactoryResolver"), unit.w)} :
        unit' = PrimCall(P0("migrateComponentFactoryResolver"), r) /\ disk' = r.w.disk
  /\ UNCHANGED <<pc, opts, disk0, stepsToRun, idx, ran, allResults, logger, written,
                 currentVersion, toVersion, runs>>

PrimCanLoad ==
  /\ pc = "prim"
  /\ Len(unit.log) < MaxPrimCalls
  /\ \E r \in {ApplyPrim(UnitCtx, P0("migrateCanLoadToCanMatch"), unit.w)} :
        unit' = PrimCall(P0("migrateCanLoadToCanMatch"), r) /\ disk' = r.w.disk
  /\ UNCHANGED <<pc, opts, disk0, stepsToRun, idx, ran, allResults, logger, written,
                 currentVersion, toVersion, runs>>

PrimServerTransition ==
  /\ pc = "prim"
  /\ Len(unit.log) < MaxPrimCalls
  /\ \E r \in {ApplyPrim(UnitCtx, P0("removeBrowserModuleWithServerTransition"), unit.w)} :
        unit' = PrimCall(P0("removeBrowserModuleWithServerTransition"), r) /\ disk' = r.w.disk
  /\ UNCHANGED <<pc, opts, disk0, stepsToRun, idx, ran, allResults, logger, written,
                 currentVersion, toVersion, runs>>

PrimStandalone ==
  /\ pc = "prim"
  /\ Len(unit.log) < MaxPrimCalls
  /\ \E r \in {ApplyPrim(UnitCtx, P0("addStandaloneFalse"), unit.w)} :
        unit' = PrimCall(P0("addStandaloneFalse"), r) /\ disk' = r.w.disk
  /\ UNCHANGED <<pc, opts, disk0, stepsToRun, idx, ran, allResults, logger, written,
                 currentVersion, toVersion, runs>>

PrimZone ==
  /\ pc = "prim"
  /\ Len(unit.log) < MaxPrimCalls
  /\ \E r \in {ApplyPrim(UnitCtx, P0("fixZoneJsImports"), unit.w)} :
        unit' = PrimCall(P0("fixZoneJsImports"), r) /\ disk' = r.w.disk
  /\ UNCHANGED <<pc, opts, disk0, stepsToRun, idx, ran, allResults, logger, written,
                 currentVersion, toVersion, runs>>

PrimAsync ==
  /\ pc = "prim"
  /\ Len(unit.log) < MaxPrimCalls
  /\ \E r \in {ApplyPrim(UnitCtx, P0("migrateAsyncToWaitForAsync"), unit.w)} :
        unit' = PrimCall(P0("migrateAsyncToWaitForAsync"), r) /\ disk' = r.w.disk
  /\ UNCHANGED <<pc, opts, disk0, stepsToRun, idx, ran, allResults, logger, written,
                 currentVersion, toVersion, runs>>

NextPrim ==
  \/ PrimRename
  \/ PrimMove
  \/ PrimDrop
  \/ PrimRemoveFromArrays
  \/ PrimComponentFactoryResolver
  \/ PrimCanLoad
  \/ PrimServerTransition
  \/ PrimStandalone
  \/ PrimZone
  \/ PrimAsync

SpecPrim == InitPrim /\ [][NextPrim]_vars

(***************************************************************************)
(* migrateComponentFactoryResolver alone, on files whose class has or      *)
(* lacks a ComponentFactoryResolver constructor parameter and field and    *)
(* whose body holds up to MaxCalls of the call statements below.           *)
(***************************************************************************)
\* const factory = this.resolver.resolveComponentFactory(Cmp);
ResolveToVariable == CallStmt("", FALSE, "resolveComponentFactory", TRUE, 0, 1, "Cmp")

\* vcr.createComponent(factory);
CreateFromVariable == CallStmt("createComponent", TRUE, "", FALSE, 0, 0, "factory")

\* vcr.createComponent(this.resolver.resolveComponentFactory(Cmp));
CreateInline == CallStmt("createComponent", TRUE, "resolveComponentFactory", TRUE, 1, 1, "Cmp")

\* const factory = resolveComponentFactory(Cmp);  (no receiver)
ResolveBare == CallStmt("", FALSE, "resolveComponentFactory", FALSE, 0, 1, "Cmp")

FactoryCalls == {ResolveToVariable, CreateFromVariable, CreateInline, ResolveBare}

FactoryTrees ==
  {Tree(<<>>, <<Class("Host", <<>>, params, fields)>>, calls, <<>>, <<>>) :
     params \in {<<>>, <<CFR>>}, fields \in {<<>>, <<CFR>>},
     calls \in SeqsUpTo(FactoryCalls, MaxCalls)}

InitFactory ==
  /\ opts \in {o \in Options : o.projectExists /\ o.fromVersion = NoVersion
                               /\ o.toVersion = NoVersion /\ ~o.dryRun /\ ~o.skipPackageJson}
  /\ disk \in {Disk(PkgAt(16), NgEsbuild, "ok", app, PolyShallow) : app \in FactoryTrees}
  /\ disk0 = disk
  /\ pc = "prim"
  /\ stepsToRun = <<>>
  /\ idx = 0
  /\ ran = <<>>
  /\ allResults = <<>>
  /\ logger = [info |-> 0, warn |-> 0, error |-> 0]
  /\ written = <<>>
  /\ currentVersion = NoVersion
  /\ toVersion = NoVersion
  /\ runs = <<>>
  /\ unit = [w |-> createTsProject(World(disk)).w, log |-> <<>>]

NextFactory == PrimComponentFactoryResolver

SpecFactory == InitFactory /\ [][NextFactory]_vars

(***************************************************************************)
(* renameNamedImport alone, on files whose body holds identifiers spelled  *)
(* like the imported symbol: a use of the binding ("reference"), the name  *)
(* of a local declaration ("local") and the name of a property access or   *)
(* member ("property").                                                    *)
(***************************************************************************)
\* the state before the first invocation on a loaded project of projects
InitOn(projects) ==
  /\ opts \in {o \in Options : o.projectExists /\ o.fromVersion = NoVersion
                               /\ o.toVersion = NoVersion /\ ~o.dryRun /\ ~o.skipPackageJson}
  /\ disk \in projects
  /\ disk0 = disk
  /\ pc = "prim"
  /\ stepsToRun = <<>>
  /\ idx = 0
  /\ ran = <<>>
  /\ allResults = <<>>
  /\ logger = [info |-> 0, warn |-> 0, error |-> 0]
  /\ written = <<>>
  /\ currentVersion = NoVersion
  /\ toVersion = NoVersion
  /\ runs = <<>>
  /\ unit = [w |-> createTsProject(World(disk)).w, log |-> <<>>]

IdentNodes ==
  {[text |-> t, role |-> r] : t \in {MovedSymbol, "other"},
                              r \in {"reference", "local", "property"}}

RenameImports ==
  { <<>>,
    <<Imp("@angular/platform-browser", <<NI(MovedSymbol, "")>>)>>,
    <<Imp("@angular/platform-browser", <<NI(MovedSymbol, "TS"), NI("Pipe", "")>>)>>,
    <<Imp("@angular/core", <<NI(MovedSymbol, "")>>)>>,
    <<Imp("@angular/core", <<NI(MovedSymbol, "")>>),
      Imp("@angular/platform-browser", <<NI("Pipe", "")>>)>> }

RenameTrees ==
  {Tree(imps, <<>>, <<>>, ids, <<>>) :
     imps \in RenameImports, ids \in SeqsUpTo(IdentNodes, MaxIdents)}

InitRename == InitOn({Disk(PkgAt(18), NgEsbuild, "ok", app, PolyShallow) : app \in RenameTrees})

NextRename == PrimRename

SpecRename == InitRename /\ [][NextRename]_vars

(***************************************************************************)
(* The import codemods alone, on files whose import declarations are drawn *)
(* from: { X }, { X as TS }, { X, Pipe }, { X, State } and a declaration   *)
(* with a default binding beside the named one, dflt, { X }.               *)
(***************************************************************************)
\* import def, { names } from 'mod'
ImpDefault(mod, def, names) == [mod |-> mod, names |-> names, def |-> def]

DeclNameLists == UnitNameLists \cup { <<NI(MovedSymbol, ""), NI("State", "")>> }

Decls ==
  {Imp(m, ns) : m \in UnitModules, ns \in DeclNameLists}
  \cup {ImpDefault(m, "dflt", <<NI(MovedSymbol, "")>>) : m \in UnitModules}

DeclTrees == {Tree(imps, <<>>, <<>>, <<>>, <<>>) : imps \in SeqsUpTo(Decls, MaxDecls)}

InitImports == InitOn({Disk(PkgAt(18), NgEsbuild, "ok", app, PolyShallow) : app \in DeclTrees})

NextImports == PrimRename \/ PrimMove \/ PrimDrop

SpecImports == InitImports /\ [][NextImports]_vars

(***************************************************************************)
(* removeFromNgModuleArrays alone, on one annotated class whose literal    *)
(* has array properties written name: [...] or 'name': [...].              *)
(***************************************************************************)
RemovedSymbol == "HttpClientModule"

ArrayElems ==
  { <<Ident(RemovedSymbol)>>,
    <<Ident(RemovedSymbol), CallElem(RemovedSymbol, "forRoot"), Ident("Other")>>,
    <<Ident("Other"), Ident(RemovedSymbol), Ident(RemovedSymbol)>> }

ArrayUnitProps ==
  {Prop(form, name, TRUE, elems, "") :
     form \in {"assign", "quoted"}, name \in {"imports", "providers"}, elems \in ArrayElems}
  \cup {Prop("shorthand", "imports", FALSE, <<>>, "")}

ArrayDecs ==
  {Dec(kind, "literal", ps) :
     kind \in {"NgModule", "Component", "Directive"},
     ps \in {qs \in SeqsUpTo(ArrayUnitProps, MaxProps) :
               \A i, j \in 1..Len(qs) : i # j => qs[i].name # qs[j].name}}
  \cup {Dec("NgModule", "expr", <<>>)}

ArrayTrees == {Tree(<<>>, <<Class("M", <<d>>, <<>>, <<>>)>>, <<>>, <<>>, <<>>) : d \in ArrayDecs}

InitArrays == InitOn({Disk(PkgAt(15), NgEsbuild, "ok", app, PolyShallow) : app \in ArrayTrees})

NextArrays == PrimRemoveFromArrays

SpecArrays == InitArrays /\ [][NextArrays]_vars

(***************************************************************************)
(* migrateComponentFactoryResolver alone, on calls around the shape        *)
(* x.createComponent(y.resolveComponentFactory(Arg)).                      *)
(***************************************************************************)
\* vcr.createComponent(r.resolveComponentFactory(Cmp), 0, injector);
CreateInlineIndexed ==
  [outer |-> "createComponent", outerPA |-> TRUE, inner |-> "resolveComponentFactory",
   innerPA |-> TRUE, innerPos |-> 1, innerArgs |-> 1, arg |-> "Cmp", outerArgs |-> 3]

\* vcr.createComponent(r.resolveComponentFactory(Cmp, injector));
CreateInlineTwoInner == CallStmt("createComponent", TRUE, "resolveComponentFactory", TRUE, 1, 2, "Cmp")

\* vcr.createComponent(options, r.resolveComponentFactory(Cmp));
CreateInlineSecond == CallStmt("createComponent", TRUE, "resolveComponentFactory", TRUE, 2, 1, "Cmp")

\* host.attach(r.resolveComponentFactory(Cmp));
AttachInline == CallStmt("attach", TRUE, "resolveComponentFactory", TRUE, 1, 1, "Cmp")

InlineCalls ==
  {CreateInline, CreateInlineIndexed, CreateInlineTwoInner, CreateInlineSecond, AttachInline,
   ResolveToVariable, CreateFromVariable}

InlineTrees ==
  {Tree(<<>>, <<Class("Host", <<>>, <<>>, <<>>)>>, calls, <<>>, <<>>) :
     calls \in SeqsUpTo(InlineCalls, MaxCalls)}

InitInline == InitOn({Disk(PkgAt(16), NgEsbuild, "ok", app, PolyShallow) : app \in InlineTrees})

NextInline == PrimComponentFactoryResolver

SpecInline == InitInline /\ [][NextInline]_vars

(***************************************************************************)
(* Properties of the orchestrator.                                         *)
(***************************************************************************)
Max2(a, b) == IF a >= b THEN a ELSE b

Min2(a, b) == IF a <= b THEN a ELSE b

\* the boundaries k -> k+1 between cur and to among the declared 15..19
ExpectedChain(cur, to) ==
  LET lo == Max2(cur, 15)
      hi == Min2(to, 19)
  IN  [k \in 1..Max2(hi - lo, 0) |-> <<lo + k - 1, lo + k>>]

RanPairs == [k \in 1..Len(ran) |-> <<ran[k].from, ran[k].to>>]

\* C1: when migrate finishes with currentVersion < targetVersion, the steps
\* it ran are exactly the declared steps between the two versions, in
\* ascending order; (15,19) gives the four steps and (17,18) gives [17->18].
C1_StepSelection ==
  /\ (pc = "done" /\ currentVersion # NoVersion /\ currentVersion < toVersion)
       => RanPairs = ExpectedChain(currentVersion, toVersion)
  /\ (pc = "done" /\ currentVersion = 15 /\ toVersion = 19)
       => RanPairs = << <<15, 16>>, <<16, 17>>, <<17, 18>>, <<18, 19>> >>
  /\ (pc = "done" /\ currentVersion = 17 /\ toVersion = 18)
       => RanPairs = << <<17, 18>> >>

C1_Witness == pc = "done" /\ currentVersion = 15 /\ toVersion = 19 /\ Len(ran) = 4

\* C2: when currentVersion >= targetVersion, migrate runs no step, writes no
\* file (manifest, build configuration, source or report) and returns
\* normally, reporting success once.
C2_NothingToDo ==
  (pc # "start" /\ currentVersion # NoVersion /\ currentVersion >= toVersion)
    => /\ pc = "done"
       /\ ran = <<>>
       /\ allResults = <<>>
       /\ written = <<>>
       /\ disk = disk0
       /\ logger = [info |-> 1, warn |-> 0, error |-> 0]

C2_Witness ==
  pc = "done" /\ currentVersion # NoVersion /\ currentVersion = toVersion /\ ran = <<>>

\* C3: when currentVersion < targetVersion and no declared step lies between
\* them, migrate runs no step, warns exactly once and returns normally.
C3_NoStepWarning ==
  (pc # "start" /\ currentVersion # NoVersion /\ currentVersion < toVersion
     /\ ExpectedChain(currentVersion, toVersion) = <<>>)
    => /\ pc = "done"
       /\ ran = <<>>
       /\ written = <<>>
       /\ logger = [info |-> 0, warn |-> 1, error |-> 0]

C3_Witness == pc = "done" /\ currentVersion = 13 /\ toVersion = 15 /\ logger.warn = 1

\* C4: a selected step that raises is recorded as exactly one Error entry of
\* its own result, a step that returns has none, every later selected step
\* is still run and migrate does not fail.
C4_StepErrorContained ==
  /\ Len(allResults) = Len(ran)
  /\ \A k \in 1..Len(ran) :
        /\ allResults[k].step = stepsToRun[k].name
        /\ Len(allResults[k].errors) = (IF ran[k].raised THEN 1 ELSE 0)
  /\ Len(ran) > 0 => pc \in {"steps", "done"}
  /\ (pc = "done" /\ stepsToRun # <<>>) => Len(ran) = Len(stepsToRun)

C4_Witness ==
  /\ pc = "done"
  /\ \E k \in 1..Len(ran) : k < Len(ran) /\ ran[k].raised /\ ~ran[Len(ran)].raised

\* C5: in a run with the preview flag the manifest, the build configuration
\* and every source file keep the contents they had before the run, and no
\* primitive or document patch performs a persisted write.
C5_PreviewWritesNothing ==
  opts.dryRun => /\ disk = disk0
                 /\ \A k \in 1..Len(written) : written[k] = "migration-report.md"

C5_Witness ==
  /\ opts.dryRun
  /\ pc = "done"
  /\ Len(allResults) = 4
  /\ \A f \in {"package.json", "angular.json", "src/app.ts", "src/polyfills.ts"} :
        \E k \in 1..Len(allResults) : \E c \in 1..Len(allResults[k].changes) :
           allResults[k].changes[c].file = f

(***************************************************************************)
(* Properties of single steps.                                             *)
(***************************************************************************)
\* C6: a step run in preview mode and the same step run in applied mode on
\* the same project return the same set of Changes and the same set of
\* Warnings (and raise alike).
C6_PreviewParity ==
  \A i, j \in 1..Len(runs) :
     (runs[i].step = runs[j].step /\ runs[i].pre = runs[j].pre
        /\ runs[i].dryRun /\ ~runs[j].dryRun)
       => /\ Range(runs[i].changes) = Range(runs[j].changes)
          /\ Range(runs[i].warnings) = Range(runs[j].warnings)
          /\ runs[i].raised = runs[j].raised

C6_Witness ==
  /\ Len(runs) = 2
  /\ runs[1].step = "Angular 16 -> 17" /\ runs[2].step = "Angular 16 -> 17"
  /\ runs[1].dryRun /\ ~runs[2].dryRun
  /\ runs[1].pre = runs[2].pre
  /\ runs[2].post # runs[2].pre
  /\ Len(runs[1].changes) > 5
  /\ runs[1].warnings # <<>>

\* C7: a step run in applied mode on the project that an applied run of the
\* same step has left returns no Change.
C7_StepIdempotent ==
  \A i \in 1..Len(runs) :
     (i > 1 /\ runs[i].step = runs[i - 1].step /\ ~runs[i].dryRun /\ ~runs[i - 1].dryRun
        /\ runs[i].pre = runs[i - 1].post)
       => runs[i].changes = <<>>

(***************************************************************************)
(* Properties of single primitives.                                        *)
(***************************************************************************)
ImportedFrom(sf, sym, m) ==
  \E i \in 1..Len(sf.imports) : sf.imports[i].mod = m /\ HasNamed(sf.imports[i], sym)

\* C8: after moveImport(symbol, fromModule, toModule) on a file that imported
\* the symbol from fromModule, the symbol is imported from fromModule or from
\* toModule and, when the two modules differ, not from both.
C8_MoveConserves ==
  \A k \in 1..Len(unit.log) :
     unit.log[k].op.prim = "moveImport" =>
       \A i \in 1..Len(SourcePaths) :
          LET e == unit.log[k]
              inFrom == ImportedFrom(e.post[i], e.op.a, e.op.b)
              inTo == ImportedFrom(e.post[i], e.op.a, e.op.c)
          IN  ImportedFrom(e.pre[i], e.op.a, e.op.b)
                => /\ inFrom \/ inTo
                   /\ e.op.b # e.op.c => ~(inFrom /\ inTo)

\* the properties of a literal that are named name, whatever their form
Named(dec, name) ==
  {q \in 1..Len(dec.props) : dec.props[q].form # "spread" /\ dec.props[q].name = name}

AnyDec(sf, P(_)) ==
  \E c \in 1..Len(sf.classes) : \E d \in 1..Len(sf.classes[c].decs) : P(sf.classes[c].decs[d])

\* the pattern a primitive looks for, as its description states it
HasTarget(op, path, sf) ==
  CASE op.prim = "renameNamedImport" -> ImportedFrom(sf, op.b, op.a)
    [] op.prim = "migrateAsyncToWaitForAsync" -> ImportedFrom(sf, "async", "@angular/core/testing")
    [] op.prim = "moveImport" -> ImportedFrom(sf, op.a, op.b)
    [] op.prim = "removeObsoleteImport" -> ImportedFrom(sf, op.b, op.a)
    [] op.prim = "migrateCanLoadToCanMatch" -> ImportedFrom(sf, "CanLoad", "@angular/router")
    [] op.prim = "removeFromNgModuleArrays" ->
         AnyDec(sf, LAMBDA dec :
           \E q \in 1..Len(dec.props) : \E k \in 1..Len(dec.props[q].elems) :
              dec.props[q].elems[k] = Ident(op.a))
    [] op.prim = "migrateComponentFactoryResolver" ->
         \/ \E c \in 1..Len(sf.classes) :
               \/ \E k \in 1..Len(sf.classes[c].params) : sf.classes[c].params[k] = CFR
               \/ \E k \in 1..Len(sf.classes[c].fields) : sf.classes[c].fields[k] = CFR
         \/ \E k \in 1..Len(sf.calls) : sf.calls[k].inner = "resolveComponentFactory"
    [] op.prim = "removeBrowserModuleWithServerTransition" ->
         AnyDec(sf, LAMBDA dec :
           \E q \in 1..Len(dec.props) : \E k \in 1..Len(dec.props[q].elems) :
              dec.props[q].elems[k].kind = "call"
              /\ dec.props[q].elems[k].method = "withServerTransition")
    [] op.prim = "addStandaloneFalse" ->
         AnyDec(sf, LAMBDA dec :
           dec.kind \in StandaloneDecorators /\ dec.arg = "literal"
           /\ Named(dec, "standalone") = {})
    [] op.prim = "fixZoneJsImports" ->
         \E i \in 1..Len(sf.imports) : \E k \in 1..Len(ZoneReplacements) :
            sf.imports[i].mod = ZoneReplacements[k][1]

\* C9: a primitive run on a file that does not contain its target pattern
\* returns no Change and no Warning for the file, leaves the file's tree as
\* it was and does not persist the file.
C9_NoOpSafe ==
  \A k \in 1..Len(unit.log) : \A i \in 1..Len(SourcePaths) :
     LET e == unit.log[k]
     IN  (~HasTarget(e.op, SourcePaths[i], e.pre[i])
            /\ ~HasTarget(e.op, SourcePaths[i], e.filesPre[i]))
           => /\ \A c \in 1..Len(e.changes) : e.changes[c].file # SourcePaths[i]
              /\ \A c \in 1..Len(e.warnings) : e.warnings[c].file # SourcePaths[i]
              /\ e.post[i] = e.pre[i]
              /\ e.filesPost[i] = e.filesPre[i]
              /\ \A c \in 1..Len(e.writes) : e.writes[c] # SourcePaths[i]

\* the Changes of one invocation that name the annotation kind of class cls
InsertChanges(e, path, kind, cls) ==
  SelectSeq(e.changes, LAMBDA c : c.file = path
                                   /\ c.desc = <<"added standalone: false", kind, cls>>)

\* C10: addStandaloneFalse run twice in a row returns, for a Component,
\* Directive or Pipe annotation with a literal argument, one Change in total
\* when the literal had no property named standalone in any form and none
\* when it had one, and leaves at most one property named standalone.
C10_InsertOnce ==
  \A k \in 1..Len(unit.log) :
     (k > 1 /\ unit.log[k].op.prim = "addStandaloneFalse"
            /\ unit.log[k - 1].op.prim = "addStandaloneFalse")
       => \A i \in 1..Len(SourcePaths) :
            \A c \in 1..Len(unit.log[k - 1].pre[i].classes) :
              \A d \in 1..Len(unit.log[k - 1].pre[i].classes[c].decs) :
                 LET cls == unit.log[k - 1].pre[i].classes[c]
                     dec == cls.decs[d]
                     total == Len(InsertChanges(unit.log[k - 1], SourcePaths[i], dec.kind, cls.name))
                              + Len(InsertChanges(unit.log[k], SourcePaths[i], dec.kind, cls.name))
                     final == unit.log[k].post[i].classes[c].decs[d]
                 IN  (dec.kind \in StandaloneDecorators /\ dec.arg = "literal")
                       => /\ total = (IF Named(dec, "standalone") = {} THEN 1 ELSE 0)
                          /\ Cardinality(Named(final, "standalone")) <= 1

\* the file has the two-step pattern: a receiver.resolveComponentFactory(X)
\* call outside any other call, and a createComponent call on a variable
TwoStep(sf) ==
  /\ \E k \in 1..Len(sf.calls) : sf.calls[k] = ResolveToVariable
  /\ \E k \in 1..Len(sf.calls) : sf.calls[k] = CreateFromVariable

Count(s, x) == Len(SelectSeq(s, LAMBDA y : y = x))

ForFile(s, path) == SelectSeq(s, LAMBDA y : y.file = path)

ManifestUnusable(d) ==
  \/ d.pkg.st # "ok"
  \/ LET deps == Merge(Section(d.pkg.doc, "dependencies"), Section(d.pkg.doc, "devDependencies"))
     IN  \/ "@angular/core" \notin DOMAIN deps
         \/ deps["@angular/core"].major = NoVersion

\* C12: when the project path does not exist, or no source version is given
\* and the manifest gives none, migrate fails with no step run, no result
\* recorded and nothing written; with a source version given the run never
\* fails in the set-up and selects its steps from the given version, whatever
\* the manifest holds.
C12_SetupErrorsAbort ==
  pc # "start"
    => /\ (~opts.projectExists \/ (opts.fromVersion = NoVersion /\ ManifestUnusable(disk0)))
            => /\ pc = "failed"
               /\ ran = <<>>
               /\ allResults = <<>>
               /\ written = <<>>
               /\ disk = disk0
       /\ (opts.projectExists /\ opts.fromVersion # NoVersion)
            => /\ pc # "failed"
               /\ currentVersion = opts.fromVersion
               /\ \A i \in 1..Len(stepsToRun) :
                     /\ stepsToRun[i].from >= opts.fromVersion
                     /\ stepsToRun[i] \in Range(ALL_STEPS)
               /\ \A i \in 1..Len(ALL_STEPS) :
                     (pc = "steps" /\ ALL_STEPS[i].from >= opts.fromVersion
                                   /\ ALL_STEPS[i].to <= toVersion)
                       => ALL_STEPS[i] \in Range(stepsToRun)

C12_Witness ==
  /\ pc = "failed"
  /\ opts.projectExists
  /\ opts.fromVersion = NoVersion
  /\ disk0.pkg = PkgLatest
  /\ written = <<>>

(***************************************************************************)
(* Properties of a run with skipPackageJson.                               *)
(***************************************************************************)
\* the Changes of the result migrate records for the outcome r of a step
Recorded(r) == IF r.raised THEN <<>> ELSE r.changes

SourceOnly(changes) == SelectSeq(changes, LAMBDA c : c.file \in Range(SourcePaths))

WithManifest(o) == [Ctx(o) EXCEPT !.skipPackageJson = FALSE]

\* the source-file Changes of the first n results are those of the steps
\* run in turn with ctx from project d
SameSourceChanges(n, ctx, d) ==
  \A r1 \in {StepRun(stepsToRun[1], ctx, d)} :
    /\ SourceOnly(allResults[1].changes) = SourceOnly(Recorded(r1))
    /\ n >= 2 => \A r2 \in {StepRun(stepsToRun[2], ctx, r1.disk)} :
         /\ SourceOnly(allResults[2].changes) = SourceOnly(Recorded(r2))
         /\ n >= 3 => \A r3 \in {StepRun(stepsToRun[3], ctx, r2.disk)} :
              /\ SourceOnly(allResults[3].changes) = SourceOnly(Recorded(r3))
              /\ n >= 4 => \A r4 \in {StepRun(stepsToRun[4], ctx, r3.disk)} :
                   SourceOnly(allResults[4].changes) = SourceOnly(Recorded(r4))

\* C13 (as stated): in a run with skipPackageJson package.json is left as it
\* was, no result holds a Change of package.json, and the source-file Changes
\* of every step are those of the same run without the flag.
C13_SkipManifestOnly ==
  (opts.skipPackageJson /\ allResults # <<>>)
    => /\ disk.pkg = disk0.pkg
       /\ \A i \in 1..Len(allResults) : \A k \in 1..Len(allResults[i].changes) :
             allResults[i].changes[k].file # "package.json"
       /\ SameSourceChanges(Len(allResults), WithManifest(opts), disk0)

\* C13 (amended): the same, for a project whose package.json can be read; on
\* a project whose package.json is missing or malformed the run without the
\* flag raises in every step and records no Change at all.
C13_SkipReadableManifest ==
  (opts.skipPackageJson /\ allResults # <<>>)
    => /\ disk.pkg = disk0.pkg
       /\ \A i \in 1..Len(allResults) : \A k \in 1..Len(allResults[i].changes) :
             allResults[i].changes[k].file # "package.json"
       /\ disk0.pkg.st = "ok"
            => SameSourceChanges(Len(allResults), WithManifest(opts), disk0)
       /\ disk0.pkg.st # "ok"
            => \A r \in {StepRun(stepsToRun[1], WithManifest(opts), disk0)} : r.raised

C13_Witness ==
  /\ pc = "done"
  /\ opts.skipPackageJson
  /\ ~opts.dryRun
  /\ Len(allResults) >= 2
  /\ disk0.pkg = PkgAt(15)
  /\ disk.pkg = disk0.pkg
  /\ SourceOnly(allResults[1].changes) # <<>>
  /\ disk.files # disk0.files

(***************************************************************************)
(* Properties of the order of the steps of a run.                          *)
(***************************************************************************)
\* C14: in applied mode the steps run one after the other in the order of
\* stepsToRun: the first starts from the project as given, each later one
\* from the project as the step before it left it on disk, whether that step
\* returned or raised; and when a step ends, every tree it holds in memory
\* equals the file on disk, so the next step loads every edit made so far.
C14_StepsSequential ==
  ~opts.dryRun
    => /\ Len(allResults) = Len(ran)
       /\ pc = "steps" => idx = Len(ran) + 1
       /\ \A k \in 1..Len(ran) :
            /\ ran[k].from = stepsToRun[k].from
            /\ k = 1 => ran[k].pre = disk0
            /\ \A r \in {StepRun(stepsToRun[k], Ctx(opts), ran[k].pre)} :
                 /\ r.raised = ran[k].raised
                 /\ k < Len(ran) => ran[k + 1].pre = r.disk
                 /\ k = Len(ran) => disk = r.disk
                 /\ r.trees # <<>> => r.trees = r.disk.files

C14_Witness ==
  /\ ~opts.dryRun
  /\ Len(ran) >= 2
  /\ ran[1].pre = disk0
  /\ ran[2].pre.files # disk0.files
  /\ ran[2].pre.pkg # disk0.pkg
  /\ disk.files # ran[2].pre.files

(***************************************************************************)
(* Preview of a run of several steps.                                      *)
(***************************************************************************)
\* the result migrate pushes for the outcome r of a step
Pushed(step, r) ==
  IF r.raised THEN ErrorResult(step)
  ELSE [step |-> r.step, changes |-> r.changes, warnings |-> r.warnings, errors |-> <<>>]

Applied(o) == [Ctx(o) EXCEPT !.dryRun = FALSE]

\* the first n results are those of the steps run in turn with ctx from d
SameResults(n, ctx, d) ==
  \A r1 \in {StepRun(stepsToRun[1], ctx, d)} :
    /\ allResults[1] = Pushed(stepsToRun[1], r1)
    /\ n >= 2 => \A r2 \in {StepRun(stepsToRun[2], ctx, r1.disk)} :
         /\ allResults[2] = Pushed(stepsToRun[2], r2)
         /\ n >= 3 => \A r3 \in {StepRun(stepsToRun[3], ctx, r2.disk)} :
              /\ allResults[3] = Pushed(stepsToRun[3], r3)
              /\ n >= 4 => \A r4 \in {StepRun(stepsToRun[4], ctx, r3.disk)} :
                   allResults[4] = Pushed(stepsToRun[4], r4)

\* C15: the results of a preview run of two or more steps are the results of
\* the applied run of the same steps from the same project.
C15_PreviewOfLaterSteps ==
  (opts.dryRun /\ Len(allResults) >= 2) => SameResults(Len(allResults), Applied(opts), disk0)

(***************************************************************************)
(* The result list and the report.                                         *)
(***************************************************************************)
Reports == Count(written, "migration-report.md")

\* C16: while the loop runs there is one result per step already taken, in
\* the order of stepsToRun and under the step's name, whether the step
\* returned or raised, and no report; when the run is done with n >= 1 steps
\* selected there are n results and the report has been written once, as the
\* last write of the run.
C16_OneResultPerStep ==
  /\ \A i \in 1..Len(allResults) :
        /\ i <= Len(stepsToRun)
        /\ allResults[i].step = stepsToRun[i].name
        /\ (allResults[i].errors # <<>>) = ran[i].raised
  /\ pc = "steps" => Len(allResults) = idx - 1 /\ Reports = 0
  /\ (pc = "done" /\ stepsToRun # <<>>)
        => /\ Len(allResults) = Len(stepsToRun)
           /\ Reports = 1
           /\ written[Len(written)] = "migration-report.md"
  /\ (pc \in {"start", "failed"} \/ stepsToRun = <<>>) => (allResults = <<>> /\ Reports = 0)

C16_Witness ==
  /\ pc = "done"
  /\ Len(stepsToRun) >= 3
  /\ Len(allResults) = Len(stepsToRun)
  /\ \E i \in 1..Len(allResults) : allResults[i].errors # <<>>
  /\ \E i \in 1..Len(allResults) : allResults[i].errors = <<>>
  /\ Reports = 1

(***************************************************************************)
(* Changes and persisted edits.                                            *)
(***************************************************************************)
\* the project as step k of the run left it
PostOf(k) == IF k < Len(ran) THEN ran[k + 1].pre ELSE disk

Names(res, file) == \E c \in 1..Len(res.changes) : res.changes[c].file = file

\* C17: in applied mode the result recorded for a step names, in a Change,
\* every file the step left different on disk.
C17_ChangesCoverEdits ==
  ~opts.dryRun
    => \A k \in 1..Len(ran) :
          /\ PostOf(k).pkg # ran[k].pre.pkg => Names(allResults[k], "package.json")
          /\ PostOf(k).ng # ran[k].pre.ng => Names(allResults[k], "angular.json")
          /\ \A i \in 1..Len(SourcePaths) :
                PostOf(k).files[i] # ran[k].pre.files[i] => Names(allResults[k], SourcePaths[i])

(***************************************************************************)
(* When a step persists its source edits.                                  *)
(***************************************************************************)
StepOf(name) == CHOOSE s \in Range(ALL_STEPS) : s.name = name

\* run() of step after its first j invocations, started on project d
After(ctx, step, d, j) == RunOps(ctx, SubSeq(RuleSet(step), 1, j), Start(d))

\* C18: in an applied run of a step no source file on disk differs from the
\* file the step started from as long as an invocation that rewrites a tree
\* is still to come.
C18_SingleCommitPoint ==
  \A k \in 1..Len(runs) :
     ~runs[k].dryRun
       => \A j \in 1..(Len(RuleSet(StepOf(runs[k].step))) - 1) :
            \A a \in {After(StepCtx(FALSE), StepOf(runs[k].step), runs[k].pre, j)} :
              \A b \in {After(StepCtx(FALSE), StepOf(runs[k].step), runs[k].pre, j + 1)} :
                 (a.w.loaded /\ b.w.trees # a.w.trees) => a.w.disk.files = runs[k].pre.files

(***************************************************************************)
(* Order of the writes of a step.                                          *)
(***************************************************************************)
ConfigDocuments == {"package.json", "angular.json"}

\* C19: among the writes of an applied run of a step no write of
\* package.json or angular.json comes after a write of a source file.
C19_ConfigBeforeSource ==
  \A k \in 1..Len(runs) :
     ~runs[k].dryRun
       => \A i \in 1..Len(runs[k].events) : \A j \in 1..Len(runs[k].events) :
             (i < j /\ runs[k].events[i] \in Range(SourcePaths))
               => runs[k].events[j] \notin ConfigDocuments

(***************************************************************************)
(* A step whose project cannot be loaded.                                  *)
(***************************************************************************)
LoadIndex(step) == CHOOSE j \in 1..Len(RuleSet(step)) : RuleSet(step)[j].prim = "createTsProject"

C21_RenameFrame ==
  \A k \in 1..Len(unit.log) : \A i \in 1..Len(SourcePaths) :
     LET e == unit.log[k]
         sf == e.pre[i]
     IN  e.op.prim = "renameNamedImport"
           => /\ ~ImportedFrom(sf, e.op.b, e.op.a)
                   => (e.post[i] = sf /\ e.filesPost[i] = e.filesPre[i])
              /\ ImportedFrom(sf, e.op.b, e.op.a)
                   => /\ \A q \in 1..Len(sf.idents) :
                            sf.idents[q].role \in {"local", "property"}
                              => e.post[i].idents[q] = sf.idents[q]
                      /\ \A q \in 1..Len(sf.imports) :
                            sf.imports[q].mod # e.op.a => e.post[i].imports[q] = sf.imports[q]

(***************************************************************************)
(* Frame of removeObsoleteImport and moveImport.                           *)
(***************************************************************************)
\* the default binding of an import declaration, "" when it has none
DefaultOf(imp) == IF "def" \in DOMAIN imp THEN imp.def ELSE ""

\* the bindings (module, name, local alias) a file imports, as a bag
Bindings(sf) ==
  LET all == Concat([i \in 1..Len(sf.imports) |->
                       [j \in 1..Len(sf.imports[i].names) |->
                          [mod |-> sf.imports[i].mod, name |-> sf.imports[i].names[j].name,
                           alias |-> sf.imports[i].names[j].alias]]]
                    \o [i \in 1..Len(sf.imports) |->
                          IF DefaultOf(sf.imports[i]) = "" THEN <<>>
                          ELSE <<[mod |-> sf.imports[i].mod, name |-> "default",
                                  alias |-> DefaultOf(sf.imports[i])]>>])
  IN  [b \in Range(all) |-> Count(all, b)]

BagOf(f, b) == IF b \in DOMAIN f THEN f[b] ELSE 0

\* the declarations of sf for module mod
DeclsOf(sf, mod) == SelectSeq(sf.imports, LAMBDA d : d.mod = mod)

\* C22: on a file that imports symbolName from moduleName
\* removeObsoleteImport returns one Change and one Warning for the file and
\* takes away one binding of symbolName from moduleName and nothing else:
\* every other binding, the default binding of the declaration included, and
\* the rest of the file are as before.
C22_DropExactlyBinding ==
  \A k \in 1..Len(unit.log) : \A i \in 1..Len(SourcePaths) :
     LET e == unit.log[k]
         sf == e.pre[i]
         pre == Bindings(sf)
         post == Bindings(e.post[i])
     IN  (e.op.prim = "removeObsoleteImport" /\ ImportedFrom(sf, e.op.b, e.op.a))
           => /\ Len(ForFile(e.changes, SourcePaths[i])) = 1
              /\ Len(ForFile(e.warnings, SourcePaths[i])) = 1
              /\ [e.post[i] EXCEPT !.imports = <<>>] = [sf EXCEPT !.imports = <<>>]
              /\ \A b \in DOMAIN pre :
                    ~(b.mod = e.op.a /\ b.name = e.op.b) => BagOf(post, b) = pre[b]
              /\ \A b \in DOMAIN post : b \in DOMAIN pre
              /\ Len(SelectSeq(Concat([q \in 1..Len(e.post[i].imports) |-> e.post[i].imports[q].names]),
                               LAMBDA n : n.name = e.op.b))
                   = Len(SelectSeq(Concat([q \in 1..Len(sf.imports) |-> sf.imports[q].names]),
                                   LAMBDA n : n.name = e.op.b)) - 1

(***************************************************************************)
(* Frame of removeFromNgModuleArrays.                                      *)
(***************************************************************************)
\* p is the array property 'imports', 'declarations' or 'exports' of a literal
IsModuleArray(p) ==
  p.form \in {"assign", "quoted"} /\ p.arr /\ p.name \in Range(ArrayProps)

\* the literal dec without the bare identifiers symbolName in those arrays
WithoutSymbol(dec, symbolName) ==
  [dec EXCEPT !.props =
     [q \in 1..Len(@) |->
        IF IsModuleArray(@[q])
        THEN [@[q] EXCEPT !.elems =
                SelectSeq(@, LAMBDA el : ~(el.kind = "ident" /\ el.text = symbolName))]
        ELSE @[q]]]

Hits(dec, symbolName) ==
  Len(Concat([q \in 1..Len(dec.props) |->
                IF IsModuleArray(dec.props[q])
                THEN SelectSeq(dec.props[q].elems,
                               LAMBDA el : el.kind = "ident" /\ el.text = symbolName)
                ELSE <<>>]))

Targeted(dec) == dec.kind \in {"NgModule", "Component"} /\ dec.arg = "literal"

\* C23: removeFromNgModuleArrays takes every bare identifier symbolName out
\* of the imports, declarations and exports arrays of the NgModule and
\* Component literals, with one Change each, and leaves everything else.
C23_RemoveFromArraysExact ==
  \A k \in 1..Len(unit.log) : \A i \in 1..Len(SourcePaths) :
     LET e == unit.log[k]
         sf == e.pre[i]
         expected ==
           [sf EXCEPT !.classes =
              [c \in 1..Len(@) |->
                 [@[c] EXCEPT !.decs =
                    [d \in 1..Len(@) |->
                       IF Targeted(@[d]) THEN WithoutSymbol(@[d], e.op.a) ELSE @[d]]]]]
         hits == Concat([c \in 1..Len(sf.classes) |->
                           [d \in 1..Len(sf.classes[c].decs) |->
                              IF Targeted(sf.classes[c].decs[d])
                              THEN Hits(sf.classes[c].decs[d], e.op.a) ELSE 0]])
         total == Len(Concat([q \in 1..Len(hits) |-> [z \in 1..hits[q] |-> 0]]))
     IN  e.op.prim = "removeFromNgModuleArrays"
           => /\ e.post[i] = expected
              /\ Len(ForFile(e.changes, SourcePaths[i])) = total

(***************************************************************************)
(* Removals and rewrites of migrateComponentFactoryResolver.               *)
(***************************************************************************)
\* how many constructor parameters (fields) typed ComponentFactoryResolver
\* the classes of sf have
TypedParams(sf) == Count(Concat([c \in 1..Len(sf.classes) |-> sf.classes[c].params]), CFR)

TypedFields(sf) == Count(Concat([c \in 1..Len(sf.classes) |-> sf.classes[c].fields]), CFR)

\* the Warnings that report a removal in a class of sf
RemovalWarnings(ws, sf) ==
  SelectSeq(ws, LAMBDA w : /\ w.message[1] # "Found resolveComponentFactory"
                           /\ \E c \in 1..Len(sf.classes) : w.message[2] = sf.classes[c].name)

\* C24: migrateComponentFactoryResolver returns, for a file, as many Warnings
\* naming a class as it removed constructor parameters and fields typed
\* ComponentFactoryResolver from the file.
C24_RemovalsWarned ==
  \A k \in 1..Len(unit.log) : \A i \in 1..Len(SourcePaths) :
     LET e == unit.log[k]
         removed == (TypedParams(e.pre[i]) - TypedParams(e.post[i]))
                    + (TypedFields(e.pre[i]) - TypedFields(e.post[i]))
     IN  e.op.prim = "migrateComponentFactoryResolver"
           => Len(RemovalWarnings(ForFile(e.warnings, SourcePaths[i]), e.pre[i])) = removed

\* how many arguments the outer call of c has, one unless recorded
OuterArgs(c) == IF "outerArgs" \in DOMAIN c THEN c.outerArgs ELSE 1

\* c is x.createComponent(y.resolveComponentFactory(Arg)) and nothing more
ExactInlineShape(c) ==
  /\ c.outer = "createComponent" /\ c.outerPA /\ OuterArgs(c) = 1
  /\ c.inner = "resolveComponentFactory" /\ c.innerPA /\ c.innerPos = 1 /\ c.innerArgs = 1

\* C25: migrateComponentFactoryResolver replaces the inner call by its
\* argument in every call x.createComponent(y.resolveComponentFactory(Arg)),
\* with one Change each, and edits no call of another shape.
C25_InlineExactShape ==
  \A k \in 1..Len(unit.log) : \A i \in 1..Len(SourcePaths) :
     LET e == unit.log[k]
         sf == e.pre[i]
     IN  e.op.prim = "migrateComponentFactoryResolver"
           => /\ Len(e.post[i].calls) = Len(sf.calls)
              /\ \A q \in 1..Len(sf.calls) :
                    IF ExactInlineShape(sf.calls[q])
                    THEN /\ e.post[i].calls[q].inner = ""
                         /\ e.post[i].calls[q].arg = sf.calls[q].arg
                         /\ e.post[i].calls[q].outer = sf.calls[q].outer
                    ELSE e.post[i].calls[q] = sf.calls[q]
              /\ Len(ForFile(e.changes, SourcePaths[i]))
                   = Len(SelectSeq(sf.calls, ExactInlineShape))

\* every module path has at most one import declaration in sf
OnePerModule(sf) ==
  \A a, b \in 1..Len(sf.imports) : sf.imports[a].mod = sf.imports[b].mod => a = b

\* the number of bindings, the default one included, of declaration d
BindingCount(d) == Len(d.names) + (IF DefaultOf(d) = "" THEN 0 ELSE 1)

\* C26: on a file with at most one import declaration per module that
\* imports symbolName from fromModule, moveImport leaves at most one
\* declaration per module: the symbol joins the declaration of toModule when
\* there is one, a declaration is added only when there is none, and the
\* declaration of fromModule goes exactly when the symbol was its only
\* binding.
C26_MoveKeepsOnePerModule ==
  \A k \in 1..Len(unit.log) : \A i \in 1..Len(SourcePaths) :
     LET e == unit.log[k]
         sf == e.pre[i]
         post == e.post[i]
         from == e.op.b
         to == e.op.c
     IN  (e.op.prim = "moveImport" /\ OnePerModule(sf) /\ ImportedFrom(sf, e.op.a, from))
           => /\ OnePerModule(post)
              /\ Len(DeclsOf(post, to)) = 1
              /\ HasNamed(DeclsOf(post, to)[1], e.op.a)
              /\ (from # to /\ DeclsOf(sf, to) # <<>>)
                   => Len(DeclsOf(post, to)[1].names) = Len(DeclsOf(sf, to)[1].names) + 1
              /\ from # to
                   => ((DeclsOf(post, from) = <<>>) <=> (BindingCount(DeclsOf(sf, from)[1]) = 1))

(***************************************************************************)
(* The chain of the selected steps.                                        *)
(***************************************************************************)
\* C27: when a step has run, the selected steps lead from currentVersion to
\* toVersion without a gap.
C27_UnbrokenChain ==
  ran # <<>>
    => /\ stepsToRun[1].from = currentVersion
       /\ \A i \in 1..(Len(stepsToRun) - 1) : stepsToRun[i + 1].from = stepsToRun[i].to
       /\ stepsToRun[Len(stepsToRun)].to = toVersion

(***************************************************************************)
(* What a step forwards of the results of its primitives.                  *)
(***************************************************************************)
\* C28: in a run of a step, the Changes every invocation returns are appended
\* to the step's result and so are as many Warnings as it returns.
C28_ResultsForwarded ==
  \A k \in 1..Len(runs) :
     \A j \in 1..Len(RuleSet(StepOf(runs[k].step))) :
        \A a \in {After(StepCtx(runs[k].dryRun), StepOf(runs[k].step), runs[k].pre, j - 1)} :
           (~a.w.raised /\ ~a.w.returned)
             => \A r \in {ApplyPrim(StepCtx(runs[k].dryRun), RuleSet(StepOf(runs[k].step))[j], a.w)} :
                  \A b \in {Forward(RuleSet(StepOf(runs[k].step))[j], r, a)} :
                     r.w.raised
                     \/ /\ SubSeq(b.changes, Len(a.changes) + 1, Len(b.changes)) = r.changes
                        /\ Len(b.warnings) - Len(a.warnings) >= Len(r.warnings)

\* no import declaration of sf holds two bindings of one symbol name
NoRepeatedBinding(sf) ==
  \A d \in 1..Len(sf.imports) : \A a, b \in 1..Len(sf.imports[d].names) :
     sf.imports[d].names[a].name = sf.imports[d].names[b].name => a = b

\* C29: renameNamedImport and moveImport leave no import declaration with
\* two bindings of one symbol name in a file that had none.
C29_NoRepeatedBinding ==
  \A k \in 1..Len(unit.log) : \A i \in 1..Len(SourcePaths) :
     (unit.log[k].op.prim \in {"renameNamedImport", "moveImport"}
      /\ NoRepeatedBinding(unit.log[k].pre[i]))
       => NoRepeatedBinding(unit.log[k].post[i])

\* C30: moveImport keeps the local alias of the binding it moves: when the
\* first binding of symbolName in the declaration of fromModule has local
\* alias l, the file afterwards imports symbolName from toModule with local
\* alias l.
C30_MoveKeepsAlias ==
  \A k \in 1..Len(unit.log) : \A i \in 1..Len(SourcePaths) :
     LET e == unit.log[k]
         sf == e.pre[i]
         d == FindImport(sf.imports, e.op.b, e.op.a)
         moved == SelectSeq(sf.imports[d].names, LAMBDA n : n.name = e.op.a)[1]
     IN  (e.op.prim = "moveImport" /\ d # 0)
           => \E q \in 1..Len(e.post[i].imports) :
                 /\ e.post[i].imports[q].mod = e.op.c
                 /\ \E n \in 1..Len(e.post[i].imports[q].names) :
                       e.post[i].imports[q].names[n] = moved

====
